---- MODULE Spec2Model ----
(***************************************************************************)
(* A model of the document blueprint pipeline of sandc: the robust JSON    *)
(* extractor (backend/utils/text_utils.py), the discovery-list parser and  *)
(* the blueprint generator (backend/blueprint/generator.py) and the        *)
(* section extractor (backend/extractor/section_extractor.py).             *)
(*                                                                         *)
(* A text is a sequence of characters; a character is a one-element        *)
(* string, except the em dash and the en dash, which are written "EM" and  *)
(* "EN".  Positions are Python's: 0-based, -1 for "not found".             *)
(***************************************************************************)
EXTENDS Integers, Sequences, FiniteSets, TLC

VARIABLES
    gpc,        \* generate: "start", "struct", "done"
    doc1,       \* generate: first sample document (raw)
    doc2,       \* generate: second sample document (raw)
    raw_list,   \* generate: text returned by the discovery call
    attempt,    \* generate: number of structuring attempts made
    last_error, \* generate: kind of the last structuring error, "none" at first
    calls,      \* generate: the LLM calls made, in order
    blueprint,  \* generate: the returned blueprint, NoBlueprint before return
    jpc,        \* extract_json_from_llm: "input", "returned", "raised"
    jin,        \* extract_json_from_llm: the response, as the parts it was built from
    jout,       \* extract_json_from_llm: the outcome of the call
    xpc,        \* SectionExtractor.extract: "start", "loop", "returned", "raised"
    xsections,  \* SectionExtractor.extract: the sections of the blueprint argument
    xon_section, \* SectionExtractor.extract: the kind of value on_section is
    xnames,     \* SectionExtractor.extract: names of the blueprint's sections
    xi,         \* SectionExtractor.extract: loop index (0-based)
    xresult,    \* SectionExtractor.extract: the result map, as a sequence of entries
    xlog,       \* SectionExtractor.extract: the callbacks and LLM calls made, in order
    apc,        \* assign_formatting_by_llm: "start", "returned"
    section_names, \* assign_formatting_by_llm: the section_names argument
    acalls,     \* assign_formatting_by_llm: the LLM calls made, in order
    dpc,        \* DocxAssembler: "reference", "blocks", "assembled"
    reference,  \* the paragraphs of the style reference document
    formatting_blocks, \* DocxAssembler.__init__: the formatting_blocks argument
    dsections,  \* assemble_to_docx: the blueprint's sections with their generated text
    section_formatting_map, \* assemble_to_docx: the section_formatting_map argument
    document,   \* assemble_to_docx: the paragraphs added to the document, in order
    mpc,        \* Assembler.assemble: "start", "returned"
    mblueprint, \* Assembler.assemble: the blueprint argument
    msections,  \* Assembler.assemble: the sections argument, entries in insertion order
    mtext,      \* Assembler.assemble: the text returned
    fpc,        \* _find_sections_list: "start", "returned"
    fdata,      \* _find_sections_list: the data argument
    ffound,     \* _find_sections_list: the value returned
    ppc,        \* _parse_discovery_list: "start", "returned"
    praw,       \* _parse_discovery_list: the raw argument, as its lines
    pparsed     \* _parse_discovery_list: the list returned

vars == <<gpc, doc1, doc2, raw_list, attempt, last_error, calls, blueprint,
          jpc, jin, jout, xpc, xsections, xon_section, xnames, xi, xresult, xlog,
          apc, section_names, acalls,
          dpc, reference, formatting_blocks, dsections, section_formatting_map, document,
          mpc, mblueprint, msections, mtext, fpc, fdata, ffound, ppc, praw, pparsed>>

genVars == <<gpc, doc1, doc2, raw_list, attempt, last_error, calls, blueprint>>
jsonVars == <<jpc, jin, jout>>
extVars == <<xpc, xsections, xon_section, xnames, xi, xresult, xlog>>
asgVars == <<apc, section_names, acalls>>
docxVars == <<dpc, reference, formatting_blocks, dsections, section_formatting_map, document>>
asmVars == <<mpc, mblueprint, msections, mtext>>
findVars == <<fpc, fdata, ffound>>
parseVars == <<ppc, praw, pparsed>>

\* what the steps of one component leave alone
exceptGen == <<jsonVars, extVars, asgVars, docxVars, asmVars, findVars, parseVars>>
exceptJson == <<genVars, extVars, asgVars, docxVars, asmVars, findVars, parseVars>>
exceptExt == <<genVars, jsonVars, asgVars, docxVars, asmVars, findVars, parseVars>>
exceptAsg == <<genVars, jsonVars, extVars, asmVars, findVars, parseVars>>
exceptDocx == <<genVars, jsonVars, extVars, asgVars, asmVars, findVars, parseVars>>
exceptAsm == <<genVars, jsonVars, extVars, asgVars, docxVars, findVars, parseVars>>
exceptFind == <<genVars, jsonVars, extVars, asgVars, docxVars, asmVars, parseVars>>
exceptParse == <<genVars, jsonVars, extVars, asgVars, docxVars, asmVars, findVars>>

(***************************************************************************)
(* Characters and Python's string primitives.                              *)
(***************************************************************************)
NL == "\n"
CR == "\r"
TAB == "\t"
DQ == "\""
SQ == "'"
BSL == "\\"
TICK == "BT"
EmDash == "EM"
EnDash == "EN"

Digits == {"0", "1", "2", "3", "4", "5", "6", "7", "8", "9"}

\* str.isspace over the characters of the model
IsSpace(c) == c \in {" ", NL, CR, TAB}

\* s[a:b] for 0 <= a, with b clamped to len(s)
Slice(s, a, b) == SubSeq(s, a + 1, IF b > Len(s) THEN Len(s) ELSE b)

\* s[a:]
SliceFrom(s, a) == SubSeq(s, a + 1, Len(s))

\* s.startswith(pat, i)
StartsWithAt(s, pat, i) ==
    /\ i + Len(pat) <= Len(s)
    /\ \A k \in 1..Len(pat) : s[i + k] = pat[k]

\* s.find(pat, from): the lowest 0-based index at or after from, or -1
Find(s, pat, from) ==
    LET hits == {i \in from..(Len(s) - Len(pat)) : StartsWithAt(s, pat, i)}
    IN  IF hits = {} THEN -1 ELSE CHOOSE i \in hits : \A j \in hits : i <= j

\* s.rfind(pat): the highest 0-based index, or -1
RFind(s, pat) ==
    LET hits == {i \in 0..(Len(s) - Len(pat)) : StartsWithAt(s, pat, i)}
    IN  IF hits = {} THEN -1 ELSE CHOOSE i \in hits : \A j \in hits : j <= i

\* pat in s
Contains(s, pat) == Find(s, pat, 0) # -1

\* s.strip()
Strip(s) ==
    LET keep == {i \in 1..Len(s) : ~IsSpace(s[i])}
    IN  IF keep = {} THEN <<>>
        ELSE SubSeq(s, CHOOSE i \in keep : \A j \in keep : i <= j,
                       CHOOSE i \in keep : \A j \in keep : j <= i)

UpperLetters == <<"A", "B", "C", "D", "E", "F", "G", "H", "I", "J", "K", "L", "M",
                  "N", "O", "P", "Q", "R", "S", "T", "U", "V", "W", "X", "Y", "Z">>
LowerLetters == <<"a", "b", "c", "d", "e", "f", "g", "h", "i", "j", "k", "l", "m",
                  "n", "o", "p", "q", "r", "s", "t", "u", "v", "w", "x", "y", "z">>

\* str.lower, one character
LowerChar(c) ==
    IF \E k \in 1..26 : UpperLetters[k] = c
    THEN LowerLetters[CHOOSE k \in 1..26 : UpperLetters[k] = c]
    ELSE c

\* str.lower
Lower(s) == [i \in 1..Len(s) |-> LowerChar(s[i])]

RECURSIVE Concat(_)
\* "".join(parts)
Concat(parts) ==
    IF parts = <<>> THEN <<>> ELSE Head(parts) \o Concat(Tail(parts))

(***************************************************************************)
(* json.loads, as the extractor uses it (strict mode).  A JSON value is a  *)
(* tagged record: [t |-> "str", v |-> text], [t |-> "num", v |-> lexeme],  *)
(* [t |-> "arr", v |-> sequence of values], [t |-> "obj", v |-> sequence   *)
(* of [k |-> text, v |-> value]] in insertion order.  The model covers     *)
(* strings, integers, arrays and objects; the literals true, false and     *)
(* null, fractions, exponents and \u escapes lie outside its alphabet.     *)
(***************************************************************************)
JFail == [ok |-> FALSE]

JOk(v, e) == [ok |-> TRUE, val |-> v, end |-> e]

JStr(s) == [t |-> "str", v |-> s]

JNum(s) == [t |-> "num", v |-> s]

JArr(items) == [t |-> "arr", v |-> items]

JObj(pairs) == [t |-> "obj", v |-> pairs]

RECURSIVE SkipWs(_, _)
\* json.decoder.WHITESPACE.match(s, i).end()
SkipWs(s, i) ==
    IF i < Len(s) /\ s[i + 1] \in {" ", TAB, NL, CR} THEN SkipWs(s, i + 1) ELSE i

\* json.decoder.BACKSLASH: the character an escape stands for
Unescape(e) ==
    CASE e = "n" -> NL
      [] e = "r" -> CR
      [] e = "t" -> TAB
      [] e = "b" -> "BS"
      [] e = "f" -> "FF"
      [] OTHER -> e

RECURSIVE ScanString(_, _, _)
\* json.decoder.py_scanstring(s, i, strict=True), i just after the opening quote
ScanString(s, i, acc) ==
    CASE i >= Len(s) -> JFail
      [] i < Len(s) /\ s[i + 1] = DQ -> JOk(acc, i + 1)
      [] i < Len(s) /\ s[i + 1] = BSL /\ i + 1 >= Len(s) -> JFail
      [] i + 1 < Len(s) /\ s[i + 1] = BSL
            /\ s[i + 2] \in {DQ, BSL, "/", "b", "f", "n", "r", "t"} ->
            ScanString(s, i + 2, Append(acc, Unescape(s[i + 2])))
      [] i + 1 < Len(s) /\ s[i + 1] = BSL
            /\ s[i + 2] \notin {DQ, BSL, "/", "b", "f", "n", "r", "t"} -> JFail
      [] i < Len(s) /\ s[i + 1] \in {NL, CR, TAB} -> JFail
      [] OTHER -> ScanString(s, i + 1, Append(acc, s[i + 1]))

RECURSIVE DigitsEnd(_, _)
DigitsEnd(s, i) ==
    IF i < Len(s) /\ s[i + 1] \in Digits THEN DigitsEnd(s, i + 1) ELSE i

\* json.scanner.NUMBER_RE at i, integer part
ScanNumber(s, i) ==
    LET j == IF i < Len(s) /\ s[i + 1] = "-" THEN i + 1 ELSE i
    IN  IF j >= Len(s) \/ s[j + 1] \notin Digits THEN JFail
        ELSE LET e == IF s[j + 1] = "0" THEN j + 1 ELSE DigitsEnd(s, j)
             IN  JOk(JNum(Slice(s, i, e)), e)

\* dict[k] = v on an insertion-ordered dict
DictSet(pairs, k, v) ==
    IF \E n \in 1..Len(pairs) : pairs[n].k = k
    THEN [n \in 1..Len(pairs) |-> IF pairs[n].k = k THEN [k |-> k, v |-> v] ELSE pairs[n]]
    ELSE Append(pairs, [k |-> k, v |-> v])

RECURSIVE ScanOnce(_, _)
RECURSIVE ScanObject(_, _, _)
RECURSIVE ScanArray(_, _, _)

\* _scan_once on a string: the value of the py_scanstring result r
StringValue(r) == IF r.ok THEN JOk(JStr(r.val), r.end) ELSE JFail

\* json.scanner.py_make_scanner._scan_once
ScanOnce(s, i) ==
    CASE i >= Len(s) -> JFail
      [] i < Len(s) /\ s[i + 1] = DQ -> StringValue(ScanString(s, i + 1, <<>>))
      [] i < Len(s) /\ s[i + 1] = "{" -> ScanObject(s, i + 1, <<>>)
      [] i < Len(s) /\ s[i + 1] = "[" -> ScanArray(s, i + 1, <<>>)
      [] OTHER -> ScanNumber(s, i)

\* JSONObject, after the value val of key: pairs[key] = value, then "}" or ","
ObjectValue(s, key, val, pairs) ==
    CASE ~val.ok -> JFail
      [] val.ok /\ SkipWs(s, val.end) >= Len(s) -> JFail
      [] val.ok /\ SkipWs(s, val.end) < Len(s) /\ s[SkipWs(s, val.end) + 1] = "}" ->
            JOk(JObj(DictSet(pairs, key.val, val.val)), SkipWs(s, val.end) + 1)
      [] val.ok /\ SkipWs(s, val.end) < Len(s) /\ s[SkipWs(s, val.end) + 1] = "," ->
            ScanObject(s, SkipWs(s, val.end) + 1, DictSet(pairs, key.val, val.val))
      [] OTHER -> JFail

\* JSONObject, after the key scanned by py_scanstring: the ":" and the value
ObjectKey(s, key, pairs) ==
    CASE ~key.ok -> JFail
      [] key.ok /\ SkipWs(s, key.end) >= Len(s) -> JFail
      [] key.ok /\ SkipWs(s, key.end) < Len(s) /\ s[SkipWs(s, key.end) + 1] # ":" -> JFail
      [] OTHER ->
            ObjectValue(s, key, ScanOnce(s, SkipWs(s, SkipWs(s, key.end) + 1)), pairs)

\* json.decoder.JSONObject: i is where a key is expected (or "}" when pairs is empty)
ScanObject(s, i, pairs) ==
    CASE SkipWs(s, i) >= Len(s) -> JFail
      [] SkipWs(s, i) < Len(s) /\ s[SkipWs(s, i) + 1] = "}" /\ pairs = <<>> ->
            JOk(JObj(<<>>), SkipWs(s, i) + 1)
      [] SkipWs(s, i) < Len(s) /\ s[SkipWs(s, i) + 1] = DQ ->
            ObjectKey(s, ScanString(s, SkipWs(s, i) + 1, <<>>), pairs)
      [] OTHER -> JFail

\* JSONArray, after the value val: values.append(value), then "]" or ","
ArrayValue(s, val, items) ==
    CASE ~val.ok -> JFail
      [] val.ok /\ SkipWs(s, val.end) >= Len(s) -> JFail
      [] val.ok /\ SkipWs(s, val.end) < Len(s) /\ s[SkipWs(s, val.end) + 1] = "]" ->
            JOk(JArr(Append(items, val.val)), SkipWs(s, val.end) + 1)
      [] val.ok /\ SkipWs(s, val.end) < Len(s) /\ s[SkipWs(s, val.end) + 1] = "," ->
            ScanArray(s, SkipWs(s, val.end) + 1, Append(items, val.val))
      [] OTHER -> JFail

\* json.decoder.JSONArray: i is where a value is expected (or "]" when items is empty)
ScanArray(s, i, items) ==
    CASE SkipWs(s, i) >= Len(s) -> JFail
      [] SkipWs(s, i) < Len(s) /\ s[SkipWs(s, i) + 1] = "]" /\ items = <<>> ->
            JOk(JArr(<<>>), SkipWs(s, i) + 1)
      [] OTHER -> ArrayValue(s, ScanOnce(s, SkipWs(s, i)), items)

\* JSONDecoder.decode: the value r of raw_decode, with nothing but whitespace after it
DecodeEnd(s, r) ==
    IF r.ok /\ SkipWs(s, r.end) = Len(s) THEN [ok |-> TRUE, val |-> r.val] ELSE JFail

\* json.loads(s): [ok |-> TRUE, val |-> value], or [ok |-> FALSE] for JSONDecodeError
JsonLoads(s) == DecodeEnd(s, ScanOnce(s, SkipWs(s, 0)))

(***************************************************************************)
(* backend/utils/text_utils.py                                             *)
(***************************************************************************)
RECURSIVE SkipSpace(_, _)
\* the end of the match of \s* at i
SkipSpace(s, i) ==
    IF i < Len(s) /\ IsSpace(s[i + 1]) THEN SkipSpace(s, i + 1) ELSE i

\* ",\s*<closer>" matches at index i
CommaBefore(s, closer, i) ==
    /\ s[i + 1] = ","
    /\ SkipSpace(s, i + 1) < Len(s)
    /\ s[SkipSpace(s, i + 1) + 1] = closer

\* the character at index j, counted from 1, is the comma or the white space
\* of a match of ",\s*<closer>"
InTrailingComma(s, closer, j) ==
    /\ s[j] = "," \/ IsSpace(s[j])
    /\ \E i \in 1..j : /\ CommaBefore(s, closer, i - 1)
                       /\ j <= SkipSpace(s, i)

RECURSIVE SubTrailingComma(_, _, _, _)
\* re.sub(r",\s*<closer>", "<closer>", s) on the characters lo + 1 .. hi of s:
\* every match loses its comma and its white space
SubTrailingComma(s, closer, lo, hi) ==
    CASE hi <= lo -> <<>>
      [] hi = lo + 1 -> IF InTrailingComma(s, closer, hi) THEN <<>> ELSE <<s[hi]>>
      [] OTHER -> SubTrailingComma(s, closer, lo, (lo + hi) \div 2)
                    \o SubTrailingComma(s, closer, (lo + hi) \div 2, hi)

\* re.sub(r",\s*<closer>", "<closer>", s)
SubTrailingCommas(s, closer) == SubTrailingComma(s, closer, 0, Len(s))

\* re.sub(r",\s*}", "}", re.sub(r",\s*]", "]", s))
FixTrailingCommas(s) == SubTrailingCommas(SubTrailingCommas(s, "]"), "}")

\* _escape_newlines_in_json_strings, lines 38-72: the branch of the loop body taken
\* for character c
EscapeBranch(c, in_string, escape) ==
    IF ~in_string THEN "outside"
    ELSE IF escape THEN "escaped"
    ELSE IF c = BSL THEN "backslash"
    ELSE IF c = DQ THEN "quote"
    ELSE IF c = NL THEN "newline"
    ELSE IF c = CR THEN "return"
    ELSE IF c = TAB THEN "tab"
    ELSE "other"

\* lines 38-72: what the branch taken for character c appends to the result,
\* and in_string and escape after it
EscapeStep(c, branch) ==
    CASE branch = "outside" -> [out |-> <<c>>, in_string |-> c = DQ, escape |-> FALSE]
      [] branch = "escaped" -> [out |-> <<c>>, in_string |-> TRUE, escape |-> FALSE]
      [] branch = "backslash" -> [out |-> <<c>>, in_string |-> TRUE, escape |-> TRUE]
      [] branch = "quote" -> [out |-> <<c>>, in_string |-> FALSE, escape |-> FALSE]
      [] branch = "newline" -> [out |-> <<BSL, "n">>, in_string |-> TRUE, escape |-> FALSE]
      [] branch = "return" -> [out |-> <<BSL, "r">>, in_string |-> TRUE, escape |-> FALSE]
      [] branch = "tab" -> [out |-> <<BSL, "t">>, in_string |-> TRUE, escape |-> FALSE]
      [] OTHER -> [out |-> <<c>>, in_string |-> TRUE, escape |-> FALSE]

\* the loop run on one stretch of the text (left) and then on the next (right)
EscapeBoth(left, right) ==
    [out |-> left.out \o right.out, in_string |-> right.in_string, escape |-> right.escape]

RECURSIVE EscapeScan(_, _, _, _, _)
\* the loop on the characters mid + 1 .. hi, after left
EscapeRest(s, mid, hi, left) ==
    EscapeBoth(left, EscapeScan(s, mid, hi, left.in_string, left.escape))

\* the loop of _escape_newlines_in_json_strings on the characters lo + 1 .. hi
\* of s, entered with in_string and escape: the result and the two flags
EscapeScan(s, lo, hi, in_string, escape) ==
    CASE hi <= lo -> [out |-> <<>>, in_string |-> in_string, escape |-> escape]
      [] hi = lo + 1 -> EscapeStep(s[hi], EscapeBranch(s[hi], in_string, escape))
      [] OTHER -> EscapeRest(s, (lo + hi) \div 2, hi,
                             EscapeScan(s, lo, (lo + hi) \div 2, in_string, escape))

_escape_newlines_in_json_strings(s) == EscapeScan(s, 0, Len(s), FALSE, FALSE).out

\* _try_parse: the four parses, in the order they are tried
Strategies == <<"loads", "commas", "escape", "escape_commas">>

\* _try_parse, lines 8, 14, 20 and 24: the text handed to json.loads by the n-th
\* parse; escaped is _escape_newlines_in_json_strings(s)
ParseCandidate(s, escaped, n) ==
    CASE n = 1 -> s
      [] n = 2 -> FixTrailingCommas(s)
      [] n = 3 -> escaped
      [] n = 4 -> FixTrailingCommas(escaped)

RECURSIVE TryFrom(_, _, _)
\* _try_parse: the n-th parse gave p; return its value or go on to the next one
TryResult(s, escaped, n, p) ==
    IF p.ok THEN [ok |-> TRUE, val |-> p.val, tried |-> SubSeq(Strategies, 1, n)]
    ELSE TryFrom(s, escaped, n + 1)

\* _try_parse from its n-th parse on
TryFrom(s, escaped, n) ==
    IF n > Len(Strategies) THEN [ok |-> FALSE, tried |-> Strategies]
    ELSE TryResult(s, escaped, n, JsonLoads(ParseCandidate(s, escaped, n)))

\* _try_parse: [ok |-> TRUE, val |-> value, tried |-> the parses attempted], or
\* [ok |-> FALSE, tried |-> ...] for None
_try_parse(s) == TryFrom(s, _escape_newlines_in_json_strings(s), 1)

\* extract_json_from_llm, lines 82-90: the text with its code fences removed
StripFences(text) ==
    IF ~Contains(text, <<TICK, TICK, TICK>>) THEN text
    ELSE LET first == Find(text, <<TICK, TICK, TICK>>, 0)
             start == IF StartsWithAt(text, <<TICK, TICK, TICK, "j", "s", "o", "n">>, first)
                      THEN first + 7
                      ELSE IF Contains(SliceFrom(text, first), <<NL>>)
                           THEN Find(text, <<NL>>, first) + 1
                           ELSE first + 3
             end == RFind(text, <<TICK, TICK, TICK>>)
         IN  IF end > start THEN Strip(Slice(text, start, end)) ELSE text

\* extract_json_from_llm, lines 94-98: the text from its first "{" or "[" on
StripLeadingText(text) ==
    LET brace == Find(text, <<"{">>, 0)
        bracket == Find(text, <<"[">>, 0)
    IN  IF brace > 0 THEN Strip(SliceFrom(text, brace))
        ELSE IF bracket > 0 THEN Strip(SliceFrom(text, bracket))
        ELSE text

\* extract_json_from_llm, lines 111-129: the branch of the loop body taken for
\* character c; in_str is "" for None
SpanBranch(c, in_str, escape, start_char, end_char) ==
    IF escape THEN "escaped"
    ELSE IF c = BSL /\ in_str # "" THEN "backslash"
    ELSE IF in_str # "" THEN (IF c = in_str THEN "closing_quote" ELSE "in_string")
    ELSE IF c \in {DQ, SQ} THEN "quote"
    ELSE IF c = start_char THEN "open"
    ELSE IF c = end_char THEN "close"
    ELSE "other"

RECURSIVE SpanEnd(_, _, _, _, _, _, _)
\* extract_json_from_llm, lines 110-129: the index at which depth returns to 0, or
\* -1 when the loop ends without a break
SpanEnd(text, i, depth, in_str, escape, start_char, end_char) ==
    CASE i >= Len(text) -> -1
      [] i < Len(text)
            /\ SpanBranch(text[i + 1], in_str, escape, start_char, end_char) = "backslash" ->
            SpanEnd(text, i + 1, depth, in_str, TRUE, start_char, end_char)
      [] i < Len(text)
            /\ SpanBranch(text[i + 1], in_str, escape, start_char, end_char) = "closing_quote" ->
            SpanEnd(text, i + 1, depth, "", FALSE, start_char, end_char)
      [] i < Len(text)
            /\ SpanBranch(text[i + 1], in_str, escape, start_char, end_char) = "quote" ->
            SpanEnd(text, i + 1, depth, text[i + 1], FALSE, start_char, end_char)
      [] i < Len(text)
            /\ SpanBranch(text[i + 1], in_str, escape, start_char, end_char) = "open" ->
            SpanEnd(text, i + 1, depth + 1, in_str, FALSE, start_char, end_char)
      [] i < Len(text) /\ depth = 1
            /\ SpanBranch(text[i + 1], in_str, escape, start_char, end_char) = "close" -> i
      [] i < Len(text) /\ depth # 1
            /\ SpanBranch(text[i + 1], in_str, escape, start_char, end_char) = "close" ->
            SpanEnd(text, i + 1, depth - 1, in_str, FALSE, start_char, end_char)
      [] OTHER -> SpanEnd(text, i + 1, depth, in_str, FALSE, start_char, end_char)

\* lines 130-137: the parse of the balanced span, "return" or "break"
SpanResult(parsed) ==
    IF parsed.ok THEN [kind |-> "return", val |-> parsed.val] ELSE [kind |-> "break"]

\* lines 130-131: e is the index of the closing character, -1 when depth never
\* returned to 0
SpanTo(text, idx, e) ==
    IF e = -1 THEN [kind |-> "continue"]
    ELSE SpanResult(_try_parse(Slice(text, idx, e + 1)))

\* lines 104-106: idx is text.find(start_char)
SpanFrom(text, idx, start_char, end_char) ==
    IF idx = -1 THEN [kind |-> "continue"]
    ELSE SpanTo(text, idx, SpanEnd(text, idx, 0, "", FALSE, start_char, end_char))

\* extract_json_from_llm, lines 103-137, one iteration of the outer loop:
\* "continue" (no balanced span), "return" (the span parsed) or "break"
SpanParse(text, start_char, end_char) ==
    SpanFrom(text, Find(text, <<start_char>>, 0), start_char, end_char)

\* lines 103-139: the outer loop over ("{", "}") and ("[", "]"), given the outcome
\* of each iteration
SpanLoop(braces, brackets, tried) ==
    IF braces.kind = "return" THEN [status |-> "ok", val |-> braces.val, tried |-> tried]
    ELSE IF braces.kind = "break" THEN [status |-> "malformed", tried |-> tried]
    ELSE IF brackets.kind = "return"
    THEN [status |-> "ok", val |-> brackets.val, tried |-> tried]
    ELSE [status |-> "malformed", tried |-> tried]

\* lines 99-101: parsed is _try_parse(text)
DirectOrSpan(text, parsed) ==
    IF parsed.ok THEN [status |-> "ok", val |-> parsed.val, tried |-> parsed.tried]
    ELSE SpanLoop(SpanParse(text, "{", "}"), SpanParse(text, "[", "]"),
                  Append(parsed.tried, "span"))

\* extract_json_from_llm, lines 99-142, on the text left after the stripping
ParseOrMatch(text) == DirectOrSpan(text, _try_parse(text))

\* lines 91-142: text is the response without its fences
ExtractUnfenced(text) ==
    IF text = <<>> THEN [status |-> "nojson", tried |-> <<>>]
    ELSE ParseOrMatch(StripLeadingText(text))

\* lines 78-142: text is response.strip()
ExtractStripped(text) ==
    IF text = <<>> THEN [status |-> "empty", tried |-> <<>>]
    ELSE ExtractUnfenced(StripFences(text))

\* extract_json_from_llm: [status |-> "ok", val |-> value, tried |-> strategies], or
\* status "empty" (line 79), "nojson" (line 92), "malformed" (line 139) for the
\* three ValueErrors
extract_json_from_llm(response) == ExtractStripped(Strip(response))

(***************************************************************************)
(* backend/blueprint/generator.py: configuration and helpers.              *)
(***************************************************************************)
MAX_RETRIES == 3

\* the least number of sections of a blueprint (lines 310, 360 and 381)
MIN_SECTIONS == 5

SECTION_KEYS == <<
    <<"s", "e", "c", "t", "i", "o", "n", "s">>,
    <<"S", "e", "c", "t", "i", "o", "n", "s">>,
    <<"i", "t", "e", "m", "s">>,
    <<"r", "e", "s", "u", "l", "t", "s">>,
    <<"b", "l", "o", "c", "k", "s">>,
    <<"p", "a", "r", "t", "s">>,
    <<"s", "t", "r", "u", "c", "t", "u", "r", "e">>,
    <<"o", "u", "t", "l", "i", "n", "e">>,
    <<"s", "e", "c", "t", "i", "o", "n", "_", "l", "i", "s", "t">>,
    <<"c", "h", "a", "p", "t", "e", "r", "s">> >>

\* one (name, purpose) tuple
Pair(n, p) == [name |-> n, purpose |-> p]

_DEFAULT_COMPLAINT_SECTIONS == <<
    Pair(<<"C", "a", "s", "e", " ", "C", "a", "p", "t", "i", "o", "n">>,
         <<"C", "o", "u", "r", "t", " ", "n", "a", "m", "e", ",", " ", "c", "o",
           "u", "n", "t", "y", ",", " ", "c", "a", "s", "e", " ", "i", "n",
           "d", "e", "x", " ", "n", "u", "m", "b", "e", "r", ",", " ", "a",
           "n", "d", " ", "p", "a", "r", "t", "i", "e", "s", ".">>),
    Pair(<<"S", "u", "m", "m", "o", "n", "s", " ", "N", "o", "t", "i", "c", "e">>,
         <<"N", "o", "t", "i", "c", "e", " ", "t", "o", " ", "d", "e", "f", "e",
           "n", "d", "a", "n", "t", " ", "o", "f", " ", "o", "b", "l", "i",
           "g", "a", "t", "i", "o", "n", " ", "t", "o", " ", "r", "e", "s",
           "p", "o", "n", "d", " ", "a", "n", "d", " ", "d", "e", "a", "d",
           "l", "i", "n", "e", ".">>),
    Pair(<<"V", "e", "n", "u", "e", " ", "a", "n", "d", " ", "J", "u", "r", "i",
           "s", "d", "i", "c", "t", "i", "o", "n">>,
         <<"S", "t", "a", "t", "e", "m", "e", "n", "t", " ", "o", "f", " ", "v",
           "e", "n", "u", "e", " ", "a", "n", "d", " ", "j", "u", "r", "i",
           "s", "d", "i", "c", "t", "i", "o", "n", "a", "l", " ", "b", "a",
           "s", "i", "s", ".">>),
    Pair(<<"A", "t", "t", "o", "r", "n", "e", "y", " ", "a", "n", "d", " ", "P",
           "a", "r", "t", "y", " ", "D", "e", "t", "a", "i", "l", "s">>,
         <<"P", "l", "a", "i", "n", "t", "i", "f", "f", SQ, "s", " ", "a", "t", "t",
           "o", "r", "n", "e", "y", " ", "a", "n", "d", " ", "p", "a", "r",
           "t", "y", " ", "c", "o", "n", "t", "a", "c", "t", " ", "i", "n",
           "f", "o", "r", "m", "a", "t", "i", "o", "n", ".">>),
    Pair(<<"D", "e", "f", "e", "n", "d", "a", "n", "t", " ", "S", "e", "r", "v",
           "i", "c", "e", " ", "I", "n", "f", "o", "r", "m", "a", "t", "i",
           "o", "n">>,
         <<"W", "h", "e", "r", "e", " ", "a", "n", "d", " ", "h", "o", "w", " ",
           "d", "e", "f", "e", "n", "d", "a", "n", "t", "s", " ", "a", "r",
           "e", " ", "t", "o", " ", "b", "e", " ", "s", "e", "r", "v", "e",
           "d", ".">>),
    Pair(<<"C", "o", "m", "p", "l", "a", "i", "n", "t", " ", "I", "n", "t", "r",
           "o", "d", "u", "c", "t", "i", "o", "n">>,
         <<"I", "n", "t", "r", "o", "d", "u", "c", "t", "o", "r", "y", " ", "p",
           "a", "r", "a", "g", "r", "a", "p", "h", "(", "s", ")", " ", "a",
           "n", "d", " ", "n", "a", "t", "u", "r", "e", " ", "o", "f", " ",
           "t", "h", "e", " ", "a", "c", "t", "i", "o", "n", ".">>),
    Pair(<<"J", "u", "r", "i", "s", "d", "i", "c", "t", "i", "o", "n", "a", "l",
           " ", "F", "a", "c", "t", "s">>,
         <<"F", "a", "c", "t", "s", " ", "s", "u", "p", "p", "o", "r", "t", "i",
           "n", "g", " ", "j", "u", "r", "i", "s", "d", "i", "c", "t", "i",
           "o", "n", " ", "a", "n", "d", " ", "v", "e", "n", "u", "e", ".">>),
    Pair(<<"C", "a", "u", "s", "e", " ", "o", "f", " ", "A", "c", "t", "i", "o",
           "n">>,
         <<"S", "t", "a", "t", "e", "m", "e", "n", "t", " ", "o", "f", " ", "c",
           "a", "u", "s", "e", "s", " ", "o", "f", " ", "a", "c", "t", "i",
           "o", "n", " ", "a", "n", "d", " ", "l", "e", "g", "a", "l", " ",
           "c", "l", "a", "i", "m", "s", ".">>),
    Pair(<<"F", "a", "c", "t", "u", "a", "l", " ", "A", "l", "l", "e", "g", "a",
           "t", "i", "o", "n", "s">>,
         <<"N", "u", "m", "b", "e", "r", "e", "d", " ", "f", "a", "c", "t", "u",
           "a", "l", " ", "a", "l", "l", "e", "g", "a", "t", "i", "o", "n",
           "s", " ", "d", "e", "s", "c", "r", "i", "b", "i", "n", "g", " ",
           "e", "v", "e", "n", "t", "s", ".">>),
    Pair(<<"D", "a", "m", "a", "g", "e", "s", " ", "a", "n", "d", " ", "R", "e",
           "l", "i", "e", "f", " ", "C", "l", "a", "i", "m">>,
         <<"P", "r", "a", "y", "e", "r", " ", "f", "o", "r", " ", "d", "a", "m",
           "a", "g", "e", "s", " ", "a", "n", "d", " ", "r", "e", "q", "u",
           "e", "s", "t", "e", "d", " ", "r", "e", "l", "i", "e", "f", ".">>),
    Pair(<<"S", "i", "g", "n", "a", "t", "u", "r", "e", " ", "B", "l", "o", "c",
           "k">>,
         <<"P", "l", "a", "i", "n", "t", "i", "f", "f", " ", "o", "r", " ", "a",
           "t", "t", "o", "r", "n", "e", "y", " ", "s", "i", "g", "n", "a",
           "t", "u", "r", "e", " ", "b", "l", "o", "c", "k", ".">>),
    Pair(<<"A", "t", "t", "o", "r", "n", "e", "y", " ", "V", "e", "r", "i", "f",
           "i", "c", "a", "t", "i", "o", "n", " ", "o", "r", " ", "A", "f",
           "f", "i", "r", "m", "a", "t", "i", "o", "n">>,
         <<"V", "e", "r", "i", "f", "i", "c", "a", "t", "i", "o", "n", " ", "o",
           "r", " ", "a", "f", "f", "i", "r", "m", "a", "t", "i", "o", "n",
           " ", "b", "y", " ", "a", "t", "t", "o", "r", "n", "e", "y", ".">>),
    Pair(<<"F", "i", "l", "i", "n", "g", " ", "a", "n", "d", " ", "C", "e", "r",
           "t", "i", "f", "i", "c", "a", "t", "i", "o", "n", " ", "P", "a",
           "g", "e">>,
         <<"F", "i", "l", "i", "n", "g", " ", "i", "n", "s", "t", "r", "u", "c",
           "t", "i", "o", "n", "s", ",", " ", "c", "e", "r", "t", "i", "f",
           "i", "c", "a", "t", "i", "o", "n", ",", " ", "a", "n", "d", " ",
           "p", "r", "o", "o", "f", " ", "o", "f", " ", "s", "e", "r", "v",
           "i", "c", "e", ".">>) >>

_DEFAULT_MOTION_SECTIONS == <<
    Pair(<<"C", "a", "s", "e", " ", "C", "a", "p", "t", "i", "o", "n">>,
         <<"C", "o", "u", "r", "t", ",", " ", "c", "a", "s", "e", " ", "n", "u",
           "m", "b", "e", "r", ",", " ", "a", "n", "d", " ", "p", "a", "r",
           "t", "i", "e", "s", ".">>),
    Pair(<<"N", "o", "t", "i", "c", "e", " ", "o", "f", " ", "M", "o", "t", "i",
           "o", "n">>,
         <<"N", "o", "t", "i", "c", "e", " ", "o", "f", " ", "m", "o", "t", "i",
           "o", "n", " ", "h", "e", "a", "r", "i", "n", "g", " ", "a", "n",
           "d", " ", "r", "e", "l", "i", "e", "f", " ", "s", "o", "u", "g",
           "h", "t", ".">>),
    Pair(<<"A", "f", "f", "i", "d", "a", "v", "i", "t", " ", "i", "n", " ", "S",
           "u", "p", "p", "o", "r", "t">>,
         <<"S", "w", "o", "r", "n", " ", "f", "a", "c", "t", "u", "a", "l", " ",
           "a", "f", "f", "i", "d", "a", "v", "i", "t", " ", "s", "u", "p",
           "p", "o", "r", "t", "i", "n", "g", " ", "m", "o", "t", "i", "o",
           "n", ".">>),
    Pair(<<"M", "e", "m", "o", "r", "a", "n", "d", "u", "m", " ", "o", "f", " ",
           "L", "a", "w">>,
         <<"L", "e", "g", "a", "l", " ", "a", "r", "g", "u", "m", "e", "n", "t",
           " ", "a", "n", "d", " ", "c", "i", "t", "a", "t", "i", "o", "n",
           "s", ".">>),
    Pair(<<"C", "o", "n", "c", "l", "u", "s", "i", "o", "n", " ", "a", "n", "d",
           " ", "P", "r", "a", "y", "e", "r">>,
         <<"R", "e", "q", "u", "e", "s", "t", "e", "d", " ", "r", "u", "l", "i",
           "n", "g", " ", "a", "n", "d", " ", "r", "e", "l", "i", "e", "f",
           ".">>),
    Pair(<<"S", "i", "g", "n", "a", "t", "u", "r", "e", " ", "B", "l", "o", "c",
           "k">>,
         <<"A", "t", "t", "o", "r", "n", "e", "y", " ", "s", "i", "g", "n", "a",
           "t", "u", "r", "e", " ", "a", "n", "d", " ", "c", "o", "n", "t",
           "a", "c", "t", " ", "i", "n", "f", "o", ".">>) >>

\* the value of a dict lookup that found nothing
None == [t |-> "none"]

\* data.get(k) on a JSON object
DictGet(data, k) ==
    IF \E n \in 1..Len(data.v) : data.v[n].k = k
    THEN data.v[CHOOSE n \in 1..Len(data.v) : data.v[n].k = k].v
    ELSE None

IsList(v) == v.t = "arr"

IsDict(v) == v.t = "obj"

\* bool(v) for a JSON value or None
Truthy(v) ==
    CASE v.t = "none" -> FALSE
      [] v.t = "num" -> v.v \notin {<<"0">>, <<"-", "0">>}
      [] v.t \in {"str", "arr", "obj"} -> v.v # <<>>

RECURSIVE FindInValues(_, _)
RECURSIVE _find_sections_list(_)

\* _find_sections_list, lines 101-107: the loop over data.values() from the n-th on
FindInValues(data, n) ==
    IF n > Len(data.v) THEN [found |-> FALSE]
    ELSE LET v == data.v[n].v
             inner == _find_sections_list(v)
         IN  IF IsList(v) /\ Truthy(v) THEN [found |-> TRUE, list |-> v.v]
             ELSE IF IsDict(v) /\ inner.found THEN inner
             ELSE FindInValues(data, n + 1)

\* the search were the known container keys tried before the name key
_find_sections_listKeysFirst(data) ==
    LET known == {n \in 1..Len(SECTION_KEYS) :
                      LET v == DictGet(data, SECTION_KEYS[n]) IN IsList(v) /\ Truthy(v)}
    IN  IF IsList(data)
        THEN IF Truthy(data) THEN [found |-> TRUE, list |-> data.v] ELSE [found |-> FALSE]
        ELSE IF ~IsDict(data) THEN [found |-> FALSE]
        ELSE IF known # {}
        THEN [found |-> TRUE,
              list |-> DictGet(data, SECTION_KEYS[CHOOSE n \in known : \A m \in known : n <= m]).v]
        ELSE IF DictGet(data, <<"n", "a", "m", "e">>) # None THEN [found |-> TRUE, list |-> <<data>>]
        ELSE FindInValues(data, 1)

\* _find_sections_list: [found |-> TRUE, list |-> items], or [found |-> FALSE] for None
_find_sections_list(data) ==
    LET known == {n \in 1..Len(SECTION_KEYS) :
                      LET v == DictGet(data, SECTION_KEYS[n]) IN IsList(v) /\ Truthy(v)}
    IN  IF IsList(data)
        THEN IF Truthy(data) THEN [found |-> TRUE, list |-> data.v] ELSE [found |-> FALSE]
        ELSE IF ~IsDict(data) THEN [found |-> FALSE]
        ELSE IF DictGet(data, <<"n", "a", "m", "e">>) # None THEN [found |-> TRUE, list |-> <<data>>]
        ELSE IF known # {}
        THEN [found |-> TRUE,
              list |-> DictGet(data, SECTION_KEYS[CHOOSE n \in known : \A m \in known : n <= m]).v]
        ELSE FindInValues(data, 1)

RECURSIVE JoinWith(_, _)
\* sep.join(parts)
JoinWith(parts, sep) ==
    IF parts = <<>> THEN <<>>
    ELSE IF Len(parts) = 1 THEN parts[1]
    ELSE parts[1] \o sep \o JoinWith(Tail(parts), sep)

RECURSIVE PyRepr(_)
\* repr(v) of a parsed JSON value (strings without quotes or escapes in them)
PyRepr(v) ==
    CASE v.t = "str" -> <<SQ>> \o v.v \o <<SQ>>
      [] v.t = "num" -> v.v
      [] v.t = "arr" ->
            <<"[">> \o JoinWith([n \in 1..Len(v.v) |-> PyRepr(v.v[n])], <<",", " ">>) \o <<"]">>
      [] v.t = "obj" ->
            <<"{">> \o JoinWith([n \in 1..Len(v.v) |->
                                    <<SQ>> \o v.v[n].k \o <<SQ, ":", " ">> \o PyRepr(v.v[n].v)],
                                <<",", " ">>) \o <<"}">>

\* str(v)
PyStr(v) == IF v.t = "str" THEN v.v ELSE PyRepr(v)

\* item.get(keys[1]) or item.get(keys[2]) or ...: the first truthy value, else the last
\* operand
GetFirstTruthy(item, keys) ==
    LET hits == {n \in 1..Len(keys) : Truthy(DictGet(item, keys[n]))}
    IN  IF hits = {} THEN DictGet(item, keys[Len(keys)])
        ELSE DictGet(item, keys[CHOOSE n \in hits : \A m \in hits : n <= m])

\* _section_item_to_pair: a sequence holding the pair, or empty for None
_section_item_to_pair(item) ==
    LET name == GetFirstTruthy(item, <<<<"n", "a", "m", "e">>, <<"N", "a", "m", "e">>, <<"t", "i", "t", "l", "e">>, <<"s", "e", "c", "t", "i", "o", "n">>, <<"h", "e", "a", "d", "i", "n", "g">>>>)
        purpose == GetFirstTruthy(item, <<<<"p", "u", "r", "p", "o", "s", "e">>, <<"P", "u", "r", "p", "o", "s", "e">>, <<"d", "e", "s", "c", "r", "i", "p", "t", "i", "o", "n">>>>)
    IN  IF IsDict(item)
        THEN IF Truthy(name)
             THEN <<Pair(Strip(PyStr(name)),
                         IF Truthy(purpose) THEN Strip(PyStr(purpose)) ELSE <<>>)>>
             ELSE <<>>
        ELSE IF item.t = "str" /\ Strip(item.v) # <<>> THEN <<Pair(Strip(item.v), <<>>)>>
        ELSE <<>>

\* the heuristic were the motion test made first
_guess_doc_typeMotionFirst(text) ==
    LET t == Lower(text)
    IN  IF Contains(t, <<"m", "o", "t", "i", "o", "n">>) THEN "motion"
        ELSE IF Contains(t, <<"s", "u", "m", "m", "o", "n", "s">>) /\ Contains(t, <<"c", "o", "m", "p", "l", "a", "i", "n", "t">>) THEN "complaint"
        ELSE IF Contains(t, <<"p", "e", "t", "i", "t", "i", "o", "n">>) THEN "petition"
        ELSE IF Contains(t, <<"a", "f", "f", "i", "d", "a", "v", "i", "t">>) THEN "affidavit"
        ELSE "unknown"

\* _guess_doc_type
_guess_doc_type(text) ==
    LET t == Lower(text)
    IN  IF Contains(t, <<"s", "u", "m", "m", "o", "n", "s">>) /\ Contains(t, <<"c", "o", "m", "p", "l", "a", "i", "n", "t">>) THEN "complaint"
        ELSE IF Contains(t, <<"n", "o", "t", "i", "c", "e", " ", "o", "f", " ", "m", "o", "t", "i", "o", "n">>) \/ Contains(t, <<"m", "o", "t", "i", "o", "n">>) THEN "motion"
        ELSE IF Contains(t, <<"p", "e", "t", "i", "t", "i", "o", "n">>) THEN "petition"
        ELSE IF Contains(t, <<"a", "f", "f", "i", "d", "a", "v", "i", "t">>) THEN "affidavit"
        ELSE "unknown"

\* the characters of s at the positions in keep, in order
KeepAt(s, keep) ==
    [n \in 1..Cardinality(keep) |->
        s[CHOOSE i \in keep : Cardinality({j \in keep : j < i}) = n - 1]]

\* clean_text
clean_text(text) ==
    LET tabs == [i \in 1..Len(text) |-> IF text[i] = TAB THEN " " ELSE text[i]]
        spaces == KeepAt(tabs, {i \in 1..Len(tabs) :
                                    ~(tabs[i] = " " /\ i > 1 /\ tabs[i - 1] = " ")})
        lines == KeepAt(spaces, {i \in 1..Len(spaces) :
                                     ~(spaces[i] = NL /\ i > 2 /\ spaces[i - 1] = NL
                                       /\ spaces[i - 2] = NL)})
    IN  Strip(lines)

RECURSIVE SplitLinesFrom(_, _)
\* str.splitlines from index i: lines end at "\n", "\r" or "\r\n"
SplitLinesFrom(s, i) ==
    LET breaks == {b \in i..(Len(s) - 1) : s[b + 1] \in {NL, CR}}
        b == CHOOSE x \in breaks : \A y \in breaks : x <= y
        after == IF s[b + 1] = CR /\ b + 1 < Len(s) /\ s[b + 2] = NL THEN b + 2 ELSE b + 1
    IN  IF i >= Len(s) THEN <<>>
        ELSE IF breaks = {} THEN <<SliceFrom(s, i)>>
        ELSE <<Slice(s, i, b)>> \o SplitLinesFrom(s, after)

\* the numbering were it recognised with a dot only
StripNumberingDotOnly(line) ==
    LET d == DigitsEnd(line, 0)
    IN  IF d > 0 /\ d < Len(line) /\ line[d + 1] \in {"."}
        THEN SliceFrom(line, SkipSpace(line, d + 1))
        ELSE line

\* re.sub(r"^\d+[.)]\s*", "", line)
StripNumbering(line) ==
    LET d == DigitsEnd(line, 0)
    IN  IF d > 0 /\ d < Len(line) /\ line[d + 1] \in {".", ")"}
        THEN SliceFrom(line, SkipSpace(line, d + 1))
        ELSE line

\* the separators of _parse_discovery_list, in the order they are tried
Separators == <<<<" ", EmDash, " ">>, <<" ", EnDash, " ">>, <<" ", "-", " ">>, <<":", " ">>>>

\* the parser, were a line without a numbering skipped
ParseLineNumberedOnly(raw_line) ==
    LET rest == Strip(StripNumbering(Strip(raw_line)))
        found == {n \in 1..Len(Separators) : Contains(rest, Separators[n])}
        sep == Separators[CHOOSE n \in found : \A m \in found : n <= m]
        at == Find(rest, sep, 0)
        name == Strip(Slice(rest, 0, at))
        purpose == Strip(SliceFrom(rest, at + Len(sep)))
    IN  IF Strip(raw_line) = <<>> THEN <<>>
        ELSE IF StripNumbering(Strip(raw_line)) = Strip(raw_line) THEN <<>>
        ELSE IF rest = <<>> THEN <<>>
        ELSE IF found = {} THEN <<Pair(rest, <<>>)>>
        ELSE IF name # <<>> THEN <<Pair(name, purpose)>>
        ELSE <<>>

\* _parse_discovery_list, lines 172-188: the pairs (none or one) of one line
ParseLine(raw_line) ==
    LET rest == Strip(StripNumbering(Strip(raw_line)))
        found == {n \in 1..Len(Separators) : Contains(rest, Separators[n])}
        sep == Separators[CHOOSE n \in found : \A m \in found : n <= m]
        at == Find(rest, sep, 0)
        name == Strip(Slice(rest, 0, at))
        purpose == Strip(SliceFrom(rest, at + Len(sep)))
    IN  IF Strip(raw_line) = <<>> THEN <<>>
        ELSE IF rest = <<>> THEN <<>>
        ELSE IF found = {} THEN <<Pair(rest, <<>>)>>
        ELSE IF name # <<>> THEN <<Pair(name, purpose)>>
        ELSE <<>>

RECURSIVE ParseLines(_)
ParseLines(lines) ==
    IF lines = <<>> THEN <<>> ELSE ParseLine(Head(lines)) \o ParseLines(Tail(lines))

\* _parse_discovery_list
_parse_discovery_list(raw) == ParseLines(SplitLinesFrom(raw, 0))

(***************************************************************************)
(* BlueprintGenerator.generate.  The LLM client is a stub: each call       *)
(* either raises or returns a text, and is recorded in calls.              *)
(***************************************************************************)
NoBlueprint == [pending |-> TRUE]

LlmRaises == [raised |-> TRUE]

LlmReturns(t) == [raised |-> FALSE, text |-> t]

\* lines 313-316 and 265-268: the pairs as sections with ids from 1
Numbered(pairs) ==
    [i \in 1..Len(pairs) |->
        [id |-> i, name |-> pairs[i].name, purpose |-> pairs[i].purpose]]

_fallback_sections(doc_type) ==
    Numbered(IF doc_type = "motion" THEN _DEFAULT_MOTION_SECTIONS
             ELSE _DEFAULT_COMPLAINT_SECTIONS)

\* generate, lines 275-279: doc_type
DocType(d1, d2) == _guess_doc_type(clean_text(d1) \o <<NL>> \o clean_text(d2))

\* the returned dict of lines 302-306 and 392-396
FallbackBlueprint(d1, d2, err) ==
    [sections |-> _fallback_sections(DocType(d1, d2)), fallback_used |-> TRUE,
     error |-> err]

\* the returned dict of lines 312-317 and 383-388
DiscoveryBlueprint(parsed) == [sections |-> Numbered(parsed)]

\* an except clause that catches nothing
DiscoveryErrorUncaught(err) == FALSE

\* line 300: except Exception catches every error of the discovery call
DiscoveryErrorCaught(err) == TRUE

\* except ValueError in place of except Exception
StructValueErrorCaught(err) == err # "llm_error"

\* line 371: except Exception catches every error of a structuring attempt
StructErrorCaught(err) == TRUE

\* len(parsed) > 5
DiscoverySufficesStrict(parsed) == Len(parsed) > MIN_SECTIONS

\* lines 310 and 381: len(parsed) >= 5
DiscoverySuffices(parsed) == Len(parsed) >= MIN_SECTIONS

\* len(output) < 2
TooFewLax(output) == Len(output) < 2

\* line 360: len(output) < 5
TooFew(output) == Len(output) < MIN_SECTIONS

\* range(1, 2 * MAX_RETRIES + 1)
AttemptRangeTwice == 1..(2 * MAX_RETRIES)

\* range(1, MAX_RETRIES + 2)
AttemptRangeExtra == 1..(MAX_RETRIES + 1)

\* line 325: range(1, MAX_RETRIES + 1)
AttemptRange == 1..MAX_RETRIES

\* the prompts, by the text they embed
DiscoveryPrompt(d1, d2) ==
    [template |-> "discovery", doc1 |-> clean_text(d1), doc2 |-> clean_text(d2)]

StructPrompt(raw) == [template |-> "struct", list |-> raw]

RECURSIVE NormalizeItems(_)
\* lines 344-357: the pairs of the items that convert, in order
NormalizeItems(items) ==
    IF items = <<>> THEN <<>>
    ELSE _section_item_to_pair(Head(items)) \o NormalizeItems(Tail(items))

\* the checks on the normalised sections without the one of the names
CheckOutputCountOnly(output) ==
    IF TooFew(output) THEN [ok |-> FALSE, error |-> "too_few"]
    ELSE [ok |-> TRUE, sections |-> output]

\* lines 360-369: the checks on the normalised sections
CheckOutput(output) ==
    IF TooFew(output) THEN [ok |-> FALSE, error |-> "too_few"]
    ELSE IF \E n \in 1..Len(output) : output[n].name = <<>>
    THEN [ok |-> FALSE, error |-> "empty_name"]
    ELSE [ok |-> TRUE, sections |-> output]

\* lines 340-357: found is _find_sections_list(data)
CheckFound(found) ==
    IF ~found.found THEN [ok |-> FALSE, error |-> "no_sections"]
    ELSE CheckOutput(Numbered(NormalizeItems(found.list)))

\* lines 337-340: data is the outcome of extract_json_from_llm(response)
CheckData(data) ==
    IF data.status # "ok" THEN [ok |-> FALSE, error |-> data.status]
    ELSE CheckFound(_find_sections_list(data.val))

\* lines 327-369, the body of the try of one structuring attempt:
\* [ok |-> TRUE, sections |-> output], or [ok |-> FALSE, error |-> kind] when it raises
StructAttempt(out) ==
    IF out.raised THEN [ok |-> FALSE, error |-> "llm_error"]
    ELSE CheckData(extract_json_from_llm(out.text))

\* the reparsed list returned whatever its length
ReparseAlways(d1, d2, parsed, err) == DiscoveryBlueprint(parsed)

\* lines 380-396: what generate returns once the loop is exhausted; parsed is
\* _parse_discovery_list(raw_list)
ReparseOrFallback(d1, d2, parsed, err) ==
    IF DiscoverySuffices(parsed) THEN DiscoveryBlueprint(parsed)
    ELSE FallbackBlueprint(d1, d2, err)

AfterRetries(d1, d2, raw, err) ==
    ReparseOrFallback(d1, d2, _parse_discovery_list(raw), err)

(***************************************************************************)
(* The inputs of generate: sample documents and LLM responses.             *)
(***************************************************************************)
MaxLines == 5

DigitChars == <<"1", "2", "3", "4", "5", "6", "7", "8", "9">>

\* the i-th line of a discovery response: numbered with a purpose, a line that
\* names the first section again (unnumbered), or a line that yields no pair
DiscoveryLine(i, kind) ==
    CASE kind = "numbered" /\ i % 2 = 1 ->
            <<DigitChars[i], ".", " ", UpperLetters[i], " ", EmDash, " ", "p">>
      [] kind = "numbered" /\ i % 2 = 0 ->
            <<DigitChars[i], ")", " ", UpperLetters[i], " ", "-", " ", "q">>
      [] kind = "repeat" -> <<"a", ":", " ", "r">>
      [] kind = "skipped" /\ i % 3 = 1 -> <<" ">>
      [] kind = "skipped" /\ i % 3 = 2 -> <<DigitChars[i], ".">>
      [] kind = "skipped" /\ i % 3 = 0 -> <<":", " ", "q">>

\* n numbered lines, the m-th of them (if m > 0) replaced by a line of the given kind
DiscoveryText(n, m, kind) ==
    JoinWith([i \in 1..n |-> DiscoveryLine(i, IF i = m THEN kind ELSE "numbered")], <<NL>>)

DiscoveryResponses ==
    {DiscoveryText(n, m, kind) : n \in 0..MaxLines, m \in 0..MaxLines,
                                 kind \in {"repeat", "skipped"}}

StructResponses == {
    <<>>,
    <<"n", "o">>,
    <<"{", DQ, "a", DQ, ":", "1", "}">>,
    <<"[", DQ, "A", DQ, ",", DQ, "B", DQ, "]">>,
    <<"x", "{", DQ, "s", DQ, ":", "[", "{", DQ, "n", "a", "m", "e", DQ, ":", DQ, " ", DQ, "}", ",", DQ, "B", DQ, ",", DQ, "C", DQ, ",", DQ, "D", DQ, ",", DQ, "E", DQ, "]", "}">>,
    <<"[", DQ, "A", DQ, ",", DQ, "B", DQ, ",", DQ, "C", DQ, ",", DQ, "D", DQ, ",", DQ, "E", DQ, "]">>,
    <<"[", DQ, "A", DQ, ",", DQ, "B", DQ, ",", DQ, "C", DQ, ",", DQ, "D", DQ, ",", DQ, "E", DQ, ",", "]">>,
    <<"[", "{", DQ, "n", "a", "m", "e", DQ, ":", DQ, "A", DQ, "}", ",", "{", DQ, "n", "a", "m", "e", DQ, ":", DQ, "B", DQ, "}", ",", "{", DQ, "n", "a", "m", "e", DQ, ":", DQ, "C", DQ, "}", ",", "{", DQ, "n", "a", "m", "e", DQ, ":", DQ, "D", DQ, "}", ",", "{", DQ, "n", "a", "m", "e", DQ, ":", DQ, "E", DQ, "}", "]">> }

DocPairs == {
    <<<<"M", "o", "t", "i", "o", "n">>, <<>>>>,
    <<<<"S", "u", "m", "m", "o", "n", "s">>, <<"C", "o", "m", "p", "l", "a", "i", "n", "t">>>>,
    <<<<"m", "o", "t", "i", "o", "n", " ", " ", "s", "u", "m", "m", "o", "n", "s">>, <<"a", TAB, "c", "o", "m", "p", "l", "a", "i", "n", "t">>>>,
    <<<<"M", "o", "t">>, <<"i", "o", "n", " ", "a", "f", "f", "i", "d", "a", "v", "i", "t">>>>,
    <<<<"M", "O", "T", "I", "O", "N", " ", "f", "o", "r", " ", "s", "u", "m", "m", "o", "n", "s">>, <<"P", "e", "t", "i", "t", "i", "o", "n">>>> }

(***************************************************************************)
(* generate as a state machine: one action per LLM call, each with all the *)
(* code that runs up to the next call or the return.                       *)
(***************************************************************************)
GenInit ==
    /\ gpc = "start"
    /\ \E d \in DocPairs : doc1 = d[1] /\ doc2 = d[2]
    /\ raw_list = <<>>
    /\ attempt = 0
    /\ last_error = "none"
    /\ calls = <<>>
    /\ blueprint = NoBlueprint

\* lines 287-317: the discovery call and the early exit
Discovery ==
    /\ gpc = "start"
    /\ \E out \in {LlmRaises} \cup {LlmReturns(t) : t \in DiscoveryResponses} :
          /\ calls' = Append(calls, [prompt |-> DiscoveryPrompt(doc1, doc2), out |-> out])
          /\ IF out.raised
             THEN /\ raw_list' = raw_list
                  /\ IF DiscoveryErrorCaught("llm_error")
                     THEN /\ blueprint' = FallbackBlueprint(doc1, doc2, "llm_error")
                          /\ gpc' = "done"
                     ELSE /\ blueprint' = blueprint
                          /\ gpc' = "raised"
             ELSE \E parsed \in {_parse_discovery_list(out.text)} :
                  /\ raw_list' = out.text
                  /\ IF DiscoverySuffices(parsed)
                     THEN /\ blueprint' = DiscoveryBlueprint(parsed)
                          /\ gpc' = "done"
                     ELSE /\ blueprint' = blueprint
                          /\ gpc' = "struct"
    /\ UNCHANGED <<doc1, doc2, attempt, last_error, exceptGen>>

\* lines 325-396: one structuring attempt, and the fallbacks after the last one
Structuring ==
    /\ gpc = "struct"
    /\ attempt + 1 \in AttemptRange
    /\ \E out \in {LlmRaises} \cup {LlmReturns(t) : t \in StructResponses} :
       \E res \in {StructAttempt(out)} :
          /\ calls' = Append(calls, [prompt |-> StructPrompt(raw_list), out |-> out])
          /\ attempt' = attempt + 1
          /\ IF res.ok
             THEN /\ blueprint' = [sections |-> res.sections]
                  /\ gpc' = "done"
                  /\ last_error' = last_error
             ELSE IF ~StructErrorCaught(res.error)
             THEN /\ blueprint' = blueprint
                  /\ gpc' = "raised"
                  /\ last_error' = last_error
             ELSE IF attempt + 2 \in AttemptRange
             THEN /\ blueprint' = blueprint
                  /\ gpc' = "struct"
                  /\ last_error' = res.error
             ELSE /\ blueprint' = AfterRetries(doc1, doc2, raw_list, res.error)
                  /\ gpc' = "done"
                  /\ last_error' = res.error
    /\ UNCHANGED <<doc1, doc2, raw_list, exceptGen>>

JsonIdle == jpc = "idle" /\ jin = <<>> /\ jout = <<>>

ExtIdle ==
    /\ xpc = "idle"
    /\ xsections = <<>>
    /\ xon_section = "none"
    /\ xnames = <<>>
    /\ xi = 0
    /\ xresult = <<>>
    /\ xlog = <<>>

GenIdle ==
    /\ gpc = "idle"
    /\ doc1 = <<>>
    /\ doc2 = <<>>
    /\ raw_list = <<>>
    /\ attempt = 0
    /\ last_error = "none"
    /\ calls = <<>>
    /\ blueprint = NoBlueprint

AsgIdle == apc = "idle" /\ section_names = <<>> /\ acalls = <<>>

DocxIdle ==
    /\ dpc = "idle"
    /\ reference = <<>>
    /\ formatting_blocks = <<>>
    /\ dsections = <<>>
    /\ section_formatting_map = <<>>
    /\ document = <<>>

AsmIdle == mpc = "idle" /\ mblueprint = <<>> /\ msections = <<>> /\ mtext = <<>>

FindIdle == fpc = "idle" /\ fdata = <<>> /\ ffound = <<>>

ParseIdle == ppc = "idle" /\ praw = <<>> /\ pparsed = <<>>

\* the components a specification does not run
HelpersIdle == AsmIdle /\ FindIdle /\ ParseIdle

Init == GenInit /\ JsonIdle /\ ExtIdle /\ AsgIdle /\ DocxIdle /\ HelpersIdle

Next == Discovery \/ Structuring

Spec == Init /\ [][Next]_vars

(***************************************************************************)
(* Properties of generate.                                                 *)
(***************************************************************************)
Returned == gpc = "done"

\* the calls made with the structuring prompt, in order
StructCalls == SelectSeq(calls, LAMBDA c : c.prompt.template = "struct")

DiscoveryReturned == Len(calls) >= 1 /\ ~calls[1].out.raised

DiscoveryRaised == Len(calls) >= 1 /\ calls[1].out.raised

\* the sections a list of (name, purpose) pairs stands for: ids 1..n, in order
AsSections(pairs) ==
    [i \in 1..Len(pairs) |->
        [id |-> i, name |-> pairs[i].name, purpose |-> pairs[i].purpose]]

IsTemplate(sections) ==
    \/ sections = AsSections(_DEFAULT_COMPLAINT_SECTIONS) /\ Len(sections) = 13
    \/ sections = AsSections(_DEFAULT_MOTION_SECTIONS) /\ Len(sections) = 6

IsFallback(b) ==
    /\ DOMAIN b = {"sections", "fallback_used", "error"}
    /\ b.fallback_used = TRUE
    /\ IsTemplate(b.sections)

\* C1: when the discovery response parses to at least 5 pairs, generate has
\* returned after that one call, structuring was never invoked, and the
\* sections are exactly the parsed pairs, in order, with ids 1..n.
C1_DiscoveryShortCircuit ==
    (DiscoveryReturned /\ Len(_parse_discovery_list(calls[1].out.text)) >= 5) =>
        /\ Returned
        /\ Len(calls) = 1
        /\ StructCalls = <<>>
        /\ attempt = 0
        /\ blueprint = [sections |-> AsSections(_parse_discovery_list(calls[1].out.text))]

C1_Witness ==
    /\ Returned
    /\ DiscoveryReturned
    /\ Len(_parse_discovery_list(calls[1].out.text)) = 5
    /\ Len(blueprint.sections) = 5
    /\ blueprint.sections[5].id = 5

\* C2: when the discovery call raises, no further LLM call is made and the
\* returned blueprint has fallback_used = TRUE and the sections of one of the
\* two templates (13 complaint sections or 6 motion sections).
C2_DiscoveryFailureFallsBack ==
    DiscoveryRaised =>
        /\ Returned
        /\ Len(calls) = 1
        /\ IsFallback(blueprint)

C2_Witness ==
    /\ DiscoveryRaised
    /\ Returned
    /\ Len(blueprint.sections) = 6
    /\ blueprint.fallback_used

\* C3: with fewer than 5 parsed pairs structuring is attempted at most 3 times,
\* always with the same prompt; an attempt is made only after every earlier one
\* failed; a failed attempt before the third leaves generate about to make
\* another; a successful attempt returns its sections at once; the third
\* failure ends the loop.
C3_StructuringRetries ==
    /\ Len(StructCalls) <= 3
    /\ Len(StructCalls) = attempt
    /\ \A k \in 1..Len(StructCalls) :
          /\ DiscoveryReturned
          /\ Len(_parse_discovery_list(calls[1].out.text)) < 5
          /\ StructCalls[k].prompt = [template |-> "struct", list |-> calls[1].out.text]
          /\ k < Len(StructCalls) => ~StructAttempt(StructCalls[k].out).ok
    /\ (DiscoveryReturned /\ Len(_parse_discovery_list(calls[1].out.text)) < 5
            /\ StructCalls = <<>>) => gpc = "struct"
    /\ StructCalls # <<>> =>
          \E res \in {StructAttempt(StructCalls[Len(StructCalls)].out)} :
             IF res.ok THEN Returned /\ blueprint = [sections |-> res.sections]
             ELSE IF Len(StructCalls) < 3 THEN gpc = "struct" /\ blueprint = NoBlueprint
             ELSE Returned

C3_Witness ==
    /\ Returned
    /\ Len(StructCalls) = 3
    /\ StructAttempt(StructCalls[1].out).error = "too_few"
    /\ StructAttempt(StructCalls[2].out).error = "empty_name"
    /\ StructAttempt(StructCalls[3].out).error = "no_sections"

\* C4: no failure of an LLM call propagates out of generate: generate is never
\* left by an exception, it either still has a call to make or has returned a
\* blueprint with sections; when the discovery call raised, or all three
\* structuring calls raised, the blueprint is a fallback template.
C4_LlmFailuresContained ==
    /\ gpc \in {"start", "struct", "done"}
    /\ ~Returned => /\ blueprint = NoBlueprint
                    /\ \/ gpc = "start" /\ calls = <<>>
                       \/ gpc = "struct" /\ attempt < 3
    /\ Returned => "sections" \in DOMAIN blueprint
    /\ (Returned /\ DiscoveryRaised) => IsFallback(blueprint)
    /\ (Len(StructCalls) = 3 /\ \A k \in 1..3 : StructCalls[k].out.raised) =>
          Returned /\ IsFallback(blueprint) /\ blueprint.error = "llm_error"

C4_Witness ==
    /\ Returned
    /\ Len(StructCalls) = 3
    /\ \A k \in 1..3 : StructCalls[k].out.raised
    /\ Len(blueprint.sections) = 13

\* C5: every blueprint generate returns has at least 5 sections, whichever
\* path produced it.
C5_AtLeastFiveSections == Returned => Len(blueprint.sections) >= 5

C5_Witness ==
    /\ Returned
    /\ StructCalls # <<>>
    /\ "fallback_used" \notin DOMAIN blueprint
    /\ Len(blueprint.sections) = 5

\* C6: in every blueprint generate returns, no two sections have the same
\* name up to letter case.
C6_UniqueSectionNames ==
    Returned =>
        \A i, j \in 1..Len(blueprint.sections) :
            i # j => Lower(blueprint.sections[i].name) # Lower(blueprint.sections[j].name)

(***************************************************************************)
(* extract_json_from_llm applied to sample responses.  A response is a     *)
(* JSON text, possibly damaged (trailing commas, raw control characters in *)
(* strings), possibly wrapped (white space, prose, code fences); or a text *)
(* that holds no JSON.                                                     *)
(***************************************************************************)
JsonBodies == {
    <<"{", DQ, "a", DQ, ":", "1", "}">>,
    <<"[", "1", ",", "2", "]">>,
    <<"[", "{", DQ, "a", DQ, ":", "1", "}", ",", "{", DQ, "b", DQ, ":", "2", "}", "]">>,
    <<"{", DQ, "a", DQ, ":", "[", "1", "]", "}">>,
    <<"{", DQ, "a", DQ, ":", "{", DQ, "b", DQ, ":", DQ, "c", DQ, "}", "}">>,
    <<"{", DQ, "s", DQ, ":", "[", "{", DQ, "n", DQ, ":", DQ, "x", DQ, "}", "]", "}">>,
    <<"[", "]">>,
    <<"{", "}">>,
    <<"[", DQ, "{", DQ, "]">>,
    <<"{", DQ, "a", DQ, ":", DQ, "[", DQ, "}">>,
    <<"{", DQ, "a", DQ, ":", DQ, ",", "}", DQ, "}">>,
    <<"[", DQ, "x", BSL, "n", "y", DQ, "]">>,
    <<"{", DQ, "k", DQ, ":", DQ, "a", BSL, "t", "b", DQ, ",", DQ, "m", DQ, ":", DQ, BSL, "r", DQ, "}">>,
    <<"{", DQ, "a", DQ, ":", DQ, "b", BSL, BSL, DQ, "}">> }

NonJson == {
    <<>>,
    <<" ", " ">>,
    << NL, TAB, " ">>,
    <<"h", "e", "l", "l", "o">>,
    <<TICK, TICK, TICK, "j", "s", "o", "n", NL, TICK, TICK, TICK>>,
    <<"{", "o", "o", "p", "s">>,
    <<"[", "1", "]", "{", "y", "}">>,
    <<"{", DQ, "a", DQ, ":", "1">>,
    <<"x", "]">> }

Damages == {"none", "commas", "raw", "commas_raw"}

Wraps == {"bare", "padded", "prose", "fence", "json_fence", "prose_fence"}

RECURSIVE DamageScan(_, _, _, _, _)
\* the JSON text s from index i on, with a comma put before every closing
\* bracket that ends a non-empty container (commas), and with the escapes
\* \n, \r, \t of its strings replaced by the raw characters (raw)
DamageScan(s, i, in_string, commas, raw) ==
    IF i >= Len(s) THEN <<>>
    ELSE CASE in_string /\ s[i + 1] = BSL /\ raw /\ s[i + 2] \in {"n", "r", "t"} ->
                 <<Unescape(s[i + 2])>> \o DamageScan(s, i + 2, TRUE, commas, raw)
           [] in_string /\ s[i + 1] = BSL /\ ~(raw /\ s[i + 2] \in {"n", "r", "t"}) ->
                 <<s[i + 1], s[i + 2]>> \o DamageScan(s, i + 2, TRUE, commas, raw)
           [] in_string /\ s[i + 1] = DQ ->
                 <<DQ>> \o DamageScan(s, i + 1, FALSE, commas, raw)
           [] in_string /\ s[i + 1] \notin {BSL, DQ} ->
                 <<s[i + 1]>> \o DamageScan(s, i + 1, TRUE, commas, raw)
           [] ~in_string /\ s[i + 1] = DQ ->
                 <<DQ>> \o DamageScan(s, i + 1, TRUE, commas, raw)
           [] ~in_string /\ s[i + 1] \in {"}", "]"} /\ commas /\ s[i] \notin {"{", "[", ","} ->
                 <<",", s[i + 1]>> \o DamageScan(s, i + 1, FALSE, commas, raw)
           [] OTHER -> <<s[i + 1]>> \o DamageScan(s, i + 1, FALSE, commas, raw)

Damage(body, d) ==
    DamageScan(body, 0, FALSE, d \in {"commas", "commas_raw"}, d \in {"raw", "commas_raw"})

Wrap(w, t) ==
    CASE w = "bare" -> t
      [] w = "padded" -> <<" ", NL>> \o t \o <<NL, " ">>
      [] w = "prose" -> <<"S", "u", "r", "e", ":", " ">> \o t
      [] w = "fence" -> <<TICK, TICK, TICK, NL>> \o t \o <<NL, TICK, TICK, TICK>>
      [] w = "json_fence" ->
            <<TICK, TICK, TICK, "j", "s", "o", "n", NL>> \o t \o <<NL, TICK, TICK, TICK>>
      [] w = "prose_fence" ->
            <<"H", "i", ":", NL, TICK, TICK, TICK, "j", "s", "o", "n", NL>> \o t
                \o <<NL, TICK, TICK, TICK, NL, "o", "k">>

JsonInputs ==
    {[body |-> b, damage |-> d, wrap |-> w, text |-> Wrap(w, Damage(b, d))] :
        b \in JsonBodies, d \in Damages, w \in Wraps}
    \cup {[body |-> t, damage |-> "none", wrap |-> "bare", text |-> t] : t \in NonJson}

NoOutcome == [status |-> "pending"]

JsonInit ==
    /\ jpc = "input"
    /\ jin \in JsonInputs
    /\ jout = NoOutcome

\* extract_json_from_llm(response): the call returns a value or raises ValueError
ExtractJson ==
    /\ jpc = "input"
    /\ \E r \in {extract_json_from_llm(jin.text)} :
          /\ jout' = r
          /\ jpc' = IF r.status = "ok" THEN "returned" ELSE "raised"
    /\ UNCHANGED <<jin, exceptJson>>

InitJson == GenIdle /\ JsonInit /\ ExtIdle /\ AsgIdle /\ DocxIdle /\ HelpersIdle

NextJson == ExtractJson

SpecJson == InitJson /\ [][NextJson]_vars

\* C7: a well-formed JSON object or array inside a code fence, with prose
\* before and after the fence, is returned as the value of the fenced content.
C7_FencedJsonExtracted ==
    (/\ jpc # "input"
     /\ jin.wrap = "prose_fence"
     /\ jin.damage = "none"
     /\ JsonLoads(jin.body).ok
     /\ JsonLoads(jin.body).val.t \in {"obj", "arr"}) =>
        /\ jpc = "returned"
        /\ jout.val = JsonLoads(jin.body).val

\* C8: a JSON text that is invalid only by trailing commas and/or raw newline,
\* carriage return or tab characters in its strings is extracted as the value
\* of the text with the commas removed and the characters escaped.
C8_RepairsGiveIntendedValue ==
    (/\ jpc # "input"
     /\ jin.wrap = "bare"
     /\ jin.damage # "none"
     /\ JsonLoads(jin.body).ok
     /\ ~JsonLoads(jin.text).ok) =>
        /\ jpc = "returned"
        /\ jout.val = JsonLoads(jin.body).val

\* C9: the call raises at once (before any parse) exactly on an empty or
\* white-space input, otherwise only once every parse and the span matching
\* have been tried; it never raises on a valid JSON object or array.
C9_RaisesOnlyWhenExhausted ==
    /\ (jpc # "input" /\ Strip(jin.text) = <<>>) => (jpc = "raised" /\ jout.tried = <<>>)
    /\ (jpc = "raised" /\ Strip(jin.text) # <<>>) =>
          jout.tried = <<"loads", "commas", "escape", "escape_commas", "span">>
    /\ (jpc # "input" /\ JsonLoads(jin.text).ok
            /\ JsonLoads(jin.text).val.t \in {"obj", "arr"}) => jpc = "returned"

(***************************************************************************)
(* backend/extractor/section_extractor.py                                  *)
(***************************************************************************)
\* lines 32-40: val is data.get(section_name), or the value of the first key
\* that matches without regard to case
SectionValue(val) == IF val = None THEN <<>> ELSE Strip(PyStr(val))

\* lines 34-37: the first item of data whose key is section_name up to case and
\* surrounding white space
MatchKey(data, section_name) ==
    LET hits == {n \in 1..Len(data.v) :
                    /\ data.v[n].k # <<>>
                    /\ Lower(Strip(data.v[n].k)) = Lower(section_name)}
    IN  IF hits = {} THEN None
        ELSE data.v[CHOOSE n \in hits : \A m \in hits : n <= m].v

\* lines 32-33
LookUp(data, section_name, val) ==
    IF val # None THEN SectionValue(val) ELSE SectionValue(MatchKey(data, section_name))

\* lines 25-30: parsed is the outcome of extract_json_from_llm(response)
SectionFromData(parsed, section_name) ==
    IF parsed.status # "ok" THEN <<>>
    ELSE IF ~IsDict(parsed.val) THEN <<>>
    ELSE LookUp(parsed.val, section_name, DictGet(parsed.val, section_name))

\* extract_one_section, lines 25-40, on the response the LLM returned
extract_one_section(response, section_name) ==
    SectionFromData(extract_json_from_llm(response), section_name)

\* s.get("name")
SectionName(sec) == IF "name" \in DOMAIN sec THEN sec.name ELSE <<>>

RECURSIVE SectionNames(_)
\* line 50: [s.get("name", "") for s in sections if s.get("name")]
SectionNames(sections) ==
    IF sections = <<>> THEN <<>>
    ELSE IF SectionName(Head(sections)) # <<>>
    THEN <<SectionName(Head(sections))>> \o SectionNames(Tail(sections))
    ELSE SectionNames(Tail(sections))

\* result[name] = text on an insertion-ordered dict
ResultSet(result, name, text_) ==
    IF \E n \in 1..Len(result) : result[n].k = name
    THEN [n \in 1..Len(result) |->
             IF result[n].k = name THEN [k |-> name, v |-> text_] ELSE result[n]]
    ELSE Append(result, [k |-> name, v |-> text_])

MaxSections == 3

SectionItems == {[name |-> <<"A">>], [name |-> <<"B">>], [name |-> <<>>], [id |-> 1]}

SectionLists == UNION {[1..n -> SectionItems] : n \in 0..MaxSections}

ResponseKinds == {"exact", "other_case", "number", "missing", "not_dict", "unrecoverable"}

\* what the LLM may answer when asked for the section called name
ResponseFor(name, kind) ==
    CASE kind = "exact" -> <<"{", DQ>> \o name \o <<DQ, ":", DQ, " ", "t", " ", DQ, "}">>
      [] kind = "other_case" ->
            <<"{", DQ>> \o Lower(name) \o <<" ", DQ, ":", DQ, "u", DQ, "}">>
      [] kind = "number" -> <<"{", DQ>> \o name \o <<DQ, ":", "7", "}">>
      [] kind = "missing" -> <<"{", DQ, "z", DQ, ":", DQ, "t", DQ, "}">>
      [] kind = "not_dict" -> <<"[", DQ, "t", DQ, "]">>
      [] kind = "unrecoverable" -> <<"n", "o">>

\* the on_section argument: None, a value that is not callable, a callback
\* that returns and a callback that raises
Callbacks == {"none", "not_callable", "returns", "raises"}

ExtInit ==
    /\ xpc = "start"
    /\ xsections \in SectionLists
    /\ xon_section \in Callbacks
    /\ xnames = <<>>
    /\ xi = 0
    /\ xresult = <<>>
    /\ xlog = <<>>

\* extract, lines 49-55: up to the loop
ExtractStart ==
    /\ xpc = "start"
    /\ xnames' = SectionNames(xsections)
    /\ xpc' = IF SectionNames(xsections) = <<>> THEN "returned" ELSE "loop"
    /\ UNCHANGED <<xsections, xon_section, xi, xresult, xlog, exceptExt>>

\* lines 59-60: the entries on_section(name, i, total) adds to the log
Progress(name) ==
    IF xon_section \in {"returns", "raises"}
    THEN <<[event |-> "on_section", name |-> name, index |-> xi, total |-> Len(xnames)]>>
    ELSE <<>>

\* extract, lines 56-63: one iteration of the loop (names are non-empty, so line
\* 58 is never taken); a raising on_section leaves extract by the exception
\* before the LLM is called, a raising llm.generate leaves extract_one_section
\* and extract by the exception
ExtractSection ==
    /\ xpc = "loop"
    /\ \E name \in {xnames[xi + 1]} :
       \E out \in {LlmRaises} \cup {LlmReturns(ResponseFor(name, k)) : k \in ResponseKinds} :
          IF xon_section = "raises"
          THEN /\ xlog' = xlog \o Progress(name)
               /\ xpc' = "raised"
               /\ UNCHANGED <<xi, xresult>>
          ELSE /\ xlog' = xlog \o Progress(name)
                               \o <<[event |-> "generate", name |-> name, out |-> out]>>
               /\ IF out.raised
                  THEN /\ xpc' = "raised"
                       /\ UNCHANGED <<xi, xresult>>
                  ELSE /\ xresult' = ResultSet(xresult, name, extract_one_section(out.text, name))
                       /\ xi' = xi + 1
                       /\ xpc' = IF xi + 1 = Len(xnames) THEN "returned" ELSE "loop"
    /\ UNCHANGED <<xsections, xon_section, xnames, exceptExt>>

InitExtract == GenIdle /\ JsonIdle /\ ExtInit /\ AsgIdle /\ DocxIdle /\ HelpersIdle

NextExtract == ExtractStart \/ ExtractSection

SpecExtract == InitExtract /\ [][NextExtract]_vars

\* the LLM calls of the log
GenerateCalls == SelectSeq(xlog, LAMBDA e : e.event = "generate")

\* the entry of name in the result, <<>> when absent
ResultOf(name) == SelectSeq(xresult, LAMBDA e : e.k = name)

\* C10: extract never raises; once it has returned every named section of the
\* blueprint is in the result, and a section whose (last) call raised or gave
\* no recoverable JSON has the empty string.
C10_SectionFailuresIsolated ==
    /\ xpc # "raised"
    /\ xpc = "returned" =>
          /\ \A n \in 1..Len(xsections) :
                SectionName(xsections[n]) # <<>> =>
                    Len(ResultOf(SectionName(xsections[n]))) = 1
          /\ Len(GenerateCalls) = Len(xnames)
          /\ \A k \in 1..Len(GenerateCalls) :
                (/\ \A m \in (k + 1)..Len(GenerateCalls) :
                        GenerateCalls[m].name # GenerateCalls[k].name
                 /\ \/ GenerateCalls[k].out.raised
                    \/ extract_json_from_llm(GenerateCalls[k].out.text).status # "ok") =>
                    ResultOf(GenerateCalls[k].name)[1].v = <<>>

(***************************************************************************)
(* backend/formatting_assigner.py                                          *)
(***************************************************************************)
RECURSIVE DigitsValue(_, _)
\* int() of a text of decimal digits, acc the value of the digits read so far
DigitsValue(s, acc) ==
    IF s = <<>> THEN acc
    ELSE DigitsValue(Tail(s), acc * 10 + (CHOOSE d \in 0..9 : ToString(d) = Head(s)))

\* the int json.loads made of an integer literal
IntValue(lit) ==
    IF lit[1] = "-" THEN 0 - DigitsValue(Tail(lit), 0) ELSE DigitsValue(lit, 0)

IsDigits(s) == \A n \in 1..Len(s) : s[n] \in Digits

\* float(x) of an unsigned text: digits with at most one point and at least one
\* digit, or inf, infinity, nan in any case; whole is int() of the finite value
\* (exponents and underscores are outside the alphabet of the model)
UnsignedFloat(body) ==
    LET dots == {n \in 1..Len(body) : body[n] = "."}
    IN  CASE Lower(body) \in {<<"i", "n", "f">>, <<"i", "n", "f", "i", "n", "i", "t", "y">>} ->
                [ok |-> TRUE, kind |-> "inf"]
          [] Lower(body) = <<"n", "a", "n">> -> [ok |-> TRUE, kind |-> "nan"]
          [] dots = {} /\ body # <<>> /\ IsDigits(body) ->
                [ok |-> TRUE, kind |-> "finite", whole |-> DigitsValue(body, 0)]
          [] Cardinality(dots) = 1 /\ Len(body) > 1
                /\ \A n \in 1..Len(body) : body[n] \in Digits \cup {"."} ->
                [ok |-> TRUE, kind |-> "finite",
                 whole |-> DigitsValue(SubSeq(body, 1, (CHOOSE n \in dots : TRUE) - 1), 0)]
          [] OTHER -> [ok |-> FALSE]

\* float(x) of a str: white space stripped, then an optional sign
PyFloat(x) ==
    LET t == Strip(x)
    IN  IF t # <<>> /\ t[1] \in {"+", "-"}
        THEN [sign |-> IF t[1] = "-" THEN 0 - 1 ELSE 1, abs |-> UnsignedFloat(Tail(t))]
        ELSE [sign |-> 1, abs |-> UnsignedFloat(t)]

\* line 92, int(val) if isinstance(val, int) else int(float(val)): the index, or
\* the exception raised (float of a list or dict is a TypeError, of a text that
\* is no number a ValueError; int of nan a ValueError, of an infinity an
\* OverflowError)
ToIndex(val) ==
    CASE val.t = "num" -> [error |-> "none", idx |-> IntValue(val.v)]
      [] val.t = "str" /\ ~PyFloat(val.v).abs.ok -> [error |-> "ValueError"]
      [] val.t = "str" /\ PyFloat(val.v).abs.ok /\ PyFloat(val.v).abs.kind = "nan" ->
            [error |-> "ValueError"]
      [] val.t = "str" /\ PyFloat(val.v).abs.ok /\ PyFloat(val.v).abs.kind = "inf" ->
            [error |-> "OverflowError"]
      [] val.t = "str" /\ PyFloat(val.v).abs.ok /\ PyFloat(val.v).abs.kind = "finite" ->
            [error |-> "none", idx |-> PyFloat(val.v).sign * PyFloat(val.v).abs.whole]
      [] OTHER -> [error |-> "TypeError"]

Max(a, b) == IF a >= b THEN a ELSE b

Min(a, b) == IF a <= b THEN a ELSE b

\* the clamp without its lower bound
ClampIndexNoFloor(idx, n) == Min(idx, n - 1)

\* line 93: max(0, min(idx, n - 1))
ClampIndex(idx, n) == Max(0, Min(idx, n - 1))

\* lines 84-89: data.get(name), else the value of the first key that is name
\* once stripped, or once stripped and lowered
AssignedValue(data, name) ==
    LET hits == {n \in 1..Len(data.v) :
                    \/ Strip(data.v[n].k) = name
                    \/ Lower(Strip(data.v[n].k)) = Lower(name)}
    IN  IF DictGet(data, name) # None THEN DictGet(data, name)
        ELSE IF hits = {} THEN None
        ELSE data.v[CHOOSE n \in hits : \A m \in hits : n <= m].v

\* lines 90-97: the index stored for a section, or the exception the except of
\* line 94 does not catch
SectionIndex(val, n) ==
    CASE val = None -> [error |-> "none", idx |-> 0]
      [] val # None /\ ToIndex(val).error = "none" ->
            [error |-> "none", idx |-> ClampIndex(ToIndex(val).idx, n)]
      [] val # None /\ ToIndex(val).error \in {"TypeError", "ValueError"} ->
            [error |-> "none", idx |-> 0]
      [] OTHER -> [error |-> ToIndex(val).error]

RECURSIVE AssignLoop(_, _, _, _)
\* lines 83-97: one iteration, r being the index found for the first name
AssignStep(data, names, n, result, r) ==
    IF r.error # "none" THEN [error |-> r.error]
    ELSE AssignLoop(data, Tail(names), n, DictSet(result, Head(names), r.idx))

\* lines 82-98: the loop over section_names
AssignLoop(data, names, n, result) ==
    IF names = <<>> THEN [error |-> "none", result |-> result]
    ELSE AssignStep(data, names, n, result, SectionIndex(AssignedValue(data, Head(names)), n))

(***************************************************************************)
(* backend/assembler/assembler.py                                          *)
(***************************************************************************)
RECURSIVE LStripChars(_, _)
\* s.lstrip(chars)
LStripChars(s, chars) ==
    IF s # <<>> /\ Head(s) \in chars THEN LStripChars(Tail(s), chars) ELSE s

RECURSIVE RStripChars(_, _)
\* s.rstrip(chars)
RStripChars(s, chars) ==
    IF s # <<>> /\ s[Len(s)] \in chars THEN RStripChars(SubSeq(s, 1, Len(s) - 1), chars)
    ELSE s

\* s.strip(chars)
StripChars(s, chars) == RStripChars(LStripChars(s, chars), chars)

\* line 13: first.lstrip(".#0123456789) ").strip().strip("*_")
NormalizedFirst(first) ==
    StripChars(Strip(LStripChars(first, Digits \cup {".", "#", ")", " "})), {"*", "_"})

\* line 14: section_name.strip().strip("*_")
NormalizedName(section_name) == StripChars(Strip(section_name), {"*", "_"})

\* the rest of the text even if it is empty
RestOnly(rest, text) == rest

\* lines 16-17: rest if rest else text
RestOrText(rest, text) == IF rest # <<>> THEN rest ELSE text

\* lines 9-18, lines being text.strip().splitlines()
StripTitleLine(text, section_name, lines) ==
    IF lines = <<>> THEN text
    ELSE IF Lower(NormalizedFirst(Strip(lines[1]))) = Lower(NormalizedName(section_name))
    THEN RestOrText(Strip(JoinWith(Tail(lines), <<NL>>)), text)
    ELSE text

\* Assembler._strip_leading_section_title (DocxAssembler has the same method)
_strip_leading_section_title(text, section_name) ==
    IF text = <<>> \/ section_name = <<>> THEN text
    ELSE StripTitleLine(text, section_name, SplitLinesFrom(Strip(text), 0))

\* sections.get(name, default) on a map held as a sequence of entries
MapGet(map, name, default) ==
    IF \E n \in 1..Len(map) : map[n].k = name
    THEN map[CHOOSE n \in 1..Len(map) : map[n].k = name].v
    ELSE default

\* assemble, lines 24-26: the body of one section
SectionBody(s, sections) ==
    _strip_leading_section_title(Strip(MapGet(sections, s.name, <<>>)), s.name)

RECURSIVE SectionPartsAll(_, _)
\* the parts list, were an empty body appended too
SectionPartsAll(blueprint_sections, sections) ==
    IF blueprint_sections = <<>> THEN <<>>
    ELSE <<SectionBody(Head(blueprint_sections), sections)>>
            \o SectionPartsAll(Tail(blueprint_sections), sections)

RECURSIVE SectionParts(_, _)
\* assemble, lines 22-28: the parts list
SectionParts(blueprint_sections, sections) ==
    IF blueprint_sections = <<>> THEN <<>>
    ELSE IF SectionBody(Head(blueprint_sections), sections) # <<>>
    THEN <<SectionBody(Head(blueprint_sections), sections)>>
            \o SectionParts(Tail(blueprint_sections), sections)
    ELSE SectionParts(Tail(blueprint_sections), sections)

\* the parts joined by a line break only
assembleTight(bp, sections) == JoinWith(SectionParts(bp.sections, sections), <<NL>>)

\* Assembler.assemble
assemble(bp, sections) == JoinWith(SectionParts(bp.sections, sections), <<NL, NL>>)

(***************************************************************************)
(* backend/assembler/docx_assembler.py.  The value of a spec key is None,  *)
(* [t |-> "str", v |-> text], [t |-> "float", v |-> hundredths] or         *)
(* [t |-> "bool", v |-> BOOLEAN]; a length is a number of EMU; the         *)
(* attributes of a python-docx paragraph are a record of the values        *)
(* assigned to them.                                                       *)
(***************************************************************************)
Str(s) == [t |-> "str", v |-> s]

\* a float, held as a whole number of hundredths
Float(h) == [t |-> "float", v |-> h]

Bool(b) == [t |-> "bool", v |-> b]

\* docx.shared.Pt(x) and Inches(x) of a float: int(x * 12700), int(x * 914400)
Pt(x) == x.v * 127

Inches(x) == x.v * 9144

TimesNewRoman ==
    <<"T", "i", "m", "e", "s", " ", "N", "e", "w", " ", "R", "o", "m", "a", "n">>

Left_ == <<"l", "e", "f", "t">>

Single_ == <<"s", "i", "n", "g", "l", "e">>

Normal_ == <<"N", "o", "r", "m", "a", "l">>

\* _get_default_applyable (the section geometry is not modelled)
_get_default_applyable ==
    [font_name |-> Str(TimesNewRoman),
     font_size_pt |-> Float(1200),
     alignment |-> Str(Left_),
     left_indent_in |-> Float(0),
     right_indent_in |-> Float(0),
     space_before_pt |-> Float(0),
     space_after_pt |-> Float(0),
     line_spacing_rule |-> Str(Single_),
     line_spacing_value |-> None,
     keep_with_next |-> Bool(FALSE),
     page_break_before |-> Bool(FALSE),
     paragraph_style |-> Str(Normal_)]

\* bool(v) of a spec value
SpecTruthy(v) ==
    CASE v.t = "none" -> FALSE
      [] v.t = "str" -> v.v # <<>>
      [] v.t = "float" -> v.v # 0
      [] v.t = "bool" -> v.v
      [] OTHER -> TRUE

\* v or default
OrDefault(v, default) == IF SpecTruthy(v) THEN v ELSE default

\* block.get(key) on a block or a spec held as a record
Get(d, key) == IF key \in DOMAIN d THEN d[key] ELSE None

RECURSIVE _paragraph_applyables_list(_)
\* _paragraph_applyables_list: the applyable of every paragraph block that has one
_paragraph_applyables_list(blocks) ==
    IF blocks = <<>> THEN <<>>
    ELSE IF Get(Head(blocks), "type") = Str(<<"p", "a", "r", "a", "g", "r", "a", "p", "h">>)
            /\ Get(Head(blocks), "applyable") # None
    THEN <<Head(blocks).applyable>> \o _paragraph_applyables_list(Tail(blocks))
    ELSE _paragraph_applyables_list(Tail(blocks))

\* _ALIGN_MAP.get(name, WD_ALIGN_PARAGRAPH.LEFT)
_ALIGN_MAP(name) ==
    CASE name = Left_ -> "LEFT"
      [] name = <<"c", "e", "n", "t", "e", "r">> -> "CENTER"
      [] name = <<"r", "i", "g", "h", "t">> -> "RIGHT"
      [] name = <<"j", "u", "s", "t", "i", "f", "y">> -> "JUSTIFY"
      [] OTHER -> "LEFT"

\* the styles of the default template that the model's specs may name
DocStyles == {Normal_, <<"T", "i", "t", "l", "e">>}

\* _apply_paragraph_format, lines 89-100: rule and value as assigned
LineSpacingApplied(rule, value) ==
    CASE rule = Single_ -> [line_spacing_rule |-> "SINGLE", line_spacing |-> None]
      [] rule = <<"m", "u", "l", "t", "i", "p", "l", "e">> /\ value # None ->
            [line_spacing_rule |-> "MULTIPLE", line_spacing |-> value]
      [] rule = <<"e", "x", "a", "c", "t">> /\ value # None ->
            [line_spacing_rule |-> "EXACTLY", line_spacing |-> [t |-> "length", v |-> Pt(value)]]
      [] OTHER -> [line_spacing_rule |-> "SINGLE", line_spacing |-> None]

\* _apply_paragraph_format(paragraph, spec, doc) on a paragraph just added: the
\* attributes of the paragraph and of its first run afterwards
_apply_paragraph_format(spec) ==
    [style |-> IF SpecTruthy(Get(spec, "paragraph_style"))
                  /\ Get(spec, "paragraph_style").v \in DocStyles
               THEN Get(spec, "paragraph_style").v ELSE Normal_,
     font_name |-> OrDefault(Get(spec, "font_name"), Str(TimesNewRoman)).v,
     font_size |-> Pt(OrDefault(Get(spec, "font_size_pt"), Float(1200))),
     alignment |-> _ALIGN_MAP(Lower(OrDefault(Get(spec, "alignment"), Str(Left_)).v)),
     left_indent |-> Inches(OrDefault(Get(spec, "left_indent_in"), Float(0))),
     right_indent |-> Inches(OrDefault(Get(spec, "right_indent_in"), Float(0))),
     space_before |-> Pt(OrDefault(Get(spec, "space_before_pt"), Float(0))),
     space_after |-> Pt(OrDefault(Get(spec, "space_after_pt"), Float(0))),
     keep_with_next |-> IF "keep_with_next" \in DOMAIN spec THEN spec.keep_with_next
                        ELSE Bool(FALSE),
     page_break_before |-> IF "page_break_before" \in DOMAIN spec
                           THEN spec.page_break_before ELSE Bool(FALSE),
     spacing |-> LineSpacingApplied(
                    Lower(OrDefault(Get(spec, "line_spacing_rule"), Str(Single_)).v),
                    Get(spec, "line_spacing_value"))]

RECURSIVE SplitOn(_, _)
\* s.split(sep)
SplitOn(s, sep) ==
    IF Find(s, sep, 0) = -1 THEN <<s>>
    ELSE <<Slice(s, 0, Find(s, sep, 0))>> \o SplitOn(SliceFrom(s, Find(s, sep, 0) + Len(sep)), sep)

RECURSIVE StripEach(_)
\* assemble_to_docx, lines 176-179: the paragraphs of a section text that are
\* not empty once stripped
StripEach(parts) ==
    IF parts = <<>> THEN <<>>
    ELSE IF Strip(Head(parts)) = <<>> THEN StripEach(Tail(parts))
    ELSE <<Strip(Head(parts))>> \o StripEach(Tail(parts))

\* the spec of a paragraph were the index held at the last spec, not wrapped
_applyable_for_paragraph_indexHeld(applyables_list, paragraph_index) ==
    IF applyables_list = <<>> THEN _get_default_applyable
    ELSE applyables_list[Min(paragraph_index, Len(applyables_list) - 1) + 1]

\* DocxAssembler._applyable_for_paragraph_index
_applyable_for_paragraph_index(applyables_list, paragraph_index) ==
    IF applyables_list = <<>> THEN _get_default_applyable
    ELSE applyables_list[(paragraph_index % Len(applyables_list)) + 1]

\* line 164: section_formatting_map and self._applyables_list
UseSectionMap(applyables_list, map) ==
    map # None /\ map.v # <<>> /\ applyables_list # <<>>

\* the applyable of a section were a section the map does not hold given 1
SectionApplyableDefaultOne(applyables_list, map, name) ==
    applyables_list[ClampIndex(MapGet(map.v, name, 1), Len(applyables_list)) + 1]

\* lines 174-175: the applyable of a section under the section map
SectionApplyable(applyables_list, map, name) ==
    applyables_list[ClampIndex(MapGet(map.v, name, 0), Len(applyables_list)) + 1]

\* lines 176-184: the paragraphs a section adds; global_para_index paragraphs
\* are in the document already.  Each is the text of its run, the index it had,
\* the applyable chosen for it and the attributes _apply_paragraph_format set
AddedParagraphs(applyables_list, map, name, paras, global_para_index) ==
    [n \in 1..Len(paras) |->
        [text |-> paras[n],
         section |-> name,
         applyable |->
            IF UseSectionMap(applyables_list, map)
            THEN SectionApplyable(applyables_list, map, name)
            ELSE _applyable_for_paragraph_index(applyables_list, global_para_index + n - 1),
         format |-> _apply_paragraph_format(
            IF UseSectionMap(applyables_list, map)
            THEN SectionApplyable(applyables_list, map, name)
            ELSE _applyable_for_paragraph_index(applyables_list, global_para_index + n - 1))]]

\* the text of a section were its leading title never stripped
DocxSectionTextKept(name, sections, strip_leading_section_title) ==
    Strip(MapGet(sections, name, <<>>))

\* lines 167-170: the text of a section, its leading title stripped on request
DocxSectionText(name, sections, strip_leading_section_title) ==
    IF strip_leading_section_title /\ name # <<>>
    THEN _strip_leading_section_title(Strip(MapGet(sections, name, <<>>)), name)
    ELSE Strip(MapGet(sections, name, <<>>))

RECURSIVE DocxSections(_, _, _, _, _, _)
\* assemble_to_docx, lines 166-184: the loop over the blueprint's sections, doc
\* being the paragraphs added so far
DocxSections(applyables_list, bp_sections, sections, strip_leading_section_title, map, doc) ==
    IF bp_sections = <<>> THEN doc
    ELSE DocxSections(applyables_list, Tail(bp_sections), sections,
            strip_leading_section_title, map,
            doc \o AddedParagraphs(applyables_list, map, SectionName(Head(bp_sections)),
                      StripEach(SplitOn(DocxSectionText(SectionName(Head(bp_sections)),
                                            sections, strip_leading_section_title),
                                        <<NL, NL>>)),
                      Len(doc)))

\* DocxAssembler(formatting_blocks).assemble_to_docx(blueprint, sections,
\* strip_leading_section_title, section_formatting_map): the paragraphs of the
\* document that is saved
assemble_to_docx(blocks, bp, sections, strip_leading_section_title, map) ==
    DocxSections(_paragraph_applyables_list(blocks), bp.sections, sections,
                 strip_leading_section_title, map, <<>>)

(***************************************************************************)
(* format.py.  A paragraph of the reference document is a record of the    *)
(* attributes python-docx gives for it: a Length is [t |-> "length",       *)
(* v |-> EMU], a float [t |-> "float", v |-> hundredths], an enumeration   *)
(* member [t |-> "enum", v |-> name], an unset attribute None.             *)
(***************************************************************************)
Length(emu) == [t |-> "length", v |-> emu]

Enum(name) == [t |-> "enum", v |-> name]

RECURSIVE NatText(_)
\* str(n) of a natural number
NatText(n) == IF n < 10 THEN <<ToString(n)>> ELSE NatText(n \div 10) \o <<ToString(n % 10)>>

\* repr of a float that is a whole number of tenths
TenthsText(tenths) == NatText(tenths \div 10) \o <<".">> \o NatText(tenths % 10)

\* repr of a float that is a whole number of hundredths
HundredthsText(h) ==
    NatText(h \div 100) \o <<".">> \o
        (IF h % 10 = 0 THEN NatText((h % 100) \div 10)
         ELSE NatText((h % 100) \div 10) \o NatText(h % 10))

\* round(a / b) to the nearest whole number (no ties among the model's values)
Nearest(a, b) == (2 * a + b) \div (2 * b)

\* format_unit(value, "pt"): value.pt of a Length, value / 12700 of another number
FormatPt(value) ==
    IF value.t = "length" THEN TenthsText(Nearest(value.v, 1270)) \o <<" ", "p", "t">>
    ELSE TenthsText(Nearest(value.v, 127000)) \o <<" ", "p", "t">>

\* format_unit(value, "inch") of a Length
FormatInch(value) == HundredthsText(Nearest(value.v, 9144)) \o <<DQ>>

\* bool(v) of an attribute: None, a zero Length, 0.0, an empty str and False are false
AttrTruthy(v) ==
    CASE v.t = "none" -> FALSE
      [] v.t \in {"length", "float"} -> v.v # 0
      [] v.t = "str" -> v.v # <<>>
      [] v.t = "bool" -> v.v
      [] OTHER -> TRUE

\* get_alignment_string
get_alignment_string(enum_val) ==
    CASE enum_val = Enum("LEFT") -> <<"L", "e", "f", "t">>
      [] enum_val = Enum("CENTER") -> <<"C", "e", "n", "t", "e", "r">>
      [] enum_val = Enum("RIGHT") -> <<"R", "i", "g", "h", "t">>
      [] enum_val = Enum("JUSTIFY") -> <<"J", "u", "s", "t", "i", "f", "i", "e", "d">>
      [] OTHER -> <<"L", "e", "f", "t", " ", "(", "D", "e", "f", "a", "u", "l", "t", ")">>

\* WD_LINE_SPACING.SINGLE, the member that equals 0
WdLineSpaceSingle == Enum("SINGLE")

LinesSuffix == <<" ", "l", "i", "n", "e", "s">>

SingleLabel == <<"S", "i", "n", "g", "l", "e">>

\* the line spacing label were a value of exactly 10 still a number of lines
LineSpacingLabelLax(rule, line_spacing) ==
    CASE rule = WdLineSpaceSingle -> SingleLabel
      [] rule # WdLineSpaceSingle /\ ~AttrTruthy(line_spacing) -> SingleLabel
      [] rule # WdLineSpaceSingle /\ AttrTruthy(line_spacing)
            /\ line_spacing.t = "float" /\ line_spacing.v <= 10 * 100 ->
            HundredthsText(line_spacing.v) \o LinesSuffix
      [] rule # WdLineSpaceSingle /\ AttrTruthy(line_spacing)
            /\ line_spacing.t = "length" /\ line_spacing.v < 10 ->
            NatText(line_spacing.v) \o LinesSuffix
      [] OTHER -> FormatPt(line_spacing)

\* get_paragraph_formatting, lines 97-103: the line spacing label.  A Length
\* compares and rounds as its number of EMU, a float as itself
LineSpacingLabel(rule, line_spacing) ==
    CASE rule = WdLineSpaceSingle -> SingleLabel
      [] rule # WdLineSpaceSingle /\ ~AttrTruthy(line_spacing) -> SingleLabel
      [] rule # WdLineSpaceSingle /\ AttrTruthy(line_spacing)
            /\ line_spacing.t = "float" /\ line_spacing.v < 10 * 100 ->
            HundredthsText(line_spacing.v) \o LinesSuffix
      [] rule # WdLineSpaceSingle /\ AttrTruthy(line_spacing)
            /\ line_spacing.t = "length" /\ line_spacing.v < 10 ->
            NatText(line_spacing.v) \o LinesSuffix
      [] OTHER -> FormatPt(line_spacing)

\* the value of the style's font, whatever the first run sets
ResolvedStyleOnly(paragraph, attr) == paragraph.style.font[attr]

\* lines 74-81: the value of the first run's font if it is set, else the style's
Resolved(paragraph, attr) ==
    IF paragraph.run # None /\ AttrTruthy(paragraph.run.font[attr])
    THEN paragraph.run.font[attr]
    ELSE paragraph.style.font[attr]

\* the text that precedes the line spacing label in SPACING
LineSpacingPrefix == <<NL, "L", "i", "n", "e", " ", "s", "p", "a", "c", "i", "n", "g", ":", " ">>

\* get_paragraph_formatting (the "Section" entry, page geometry, is not
\* modelled; formatting stands for the key "Formatting of selected text",
\* PARAGRAPH_STYLE for "PARAGRAPH STYLE", BREAKS for "LINE AND PAGE BREAKS")
get_paragraph_formatting(paragraph, index) ==
    [paragraph_index |-> index,
     text |-> paragraph.text,
     text_preview |-> IF Len(paragraph.text) > 50
                      THEN SubSeq(paragraph.text, 1, 50) \o <<".", ".", ".">>
                      ELSE paragraph.text,
     formatting |->
        [Font |->
            [FONT |->
                (IF AttrTruthy(Resolved(paragraph, "name")) THEN Resolved(paragraph, "name").v
                 ELSE <<"(", "D", "e", "f", "a", "u", "l", "t", ")", " ", "B", "o", "d", "y", " ", "T", "e", "x", "t">>)
                \o <<NL>> \o
                (IF AttrTruthy(Resolved(paragraph, "size"))
                 THEN FormatPt(Resolved(paragraph, "size"))
                 ELSE <<"1", "1", " ", "p", "t", " ", "(", "D", "e", "f", "a", "u", "l", "t", ")">>),
             LANGUAGE |-> <<"E", "n", "g", "l", "i", "s", "h", " ", "(", "U", "n", "i", "t", "e", "d", " ", "S", "t", "a", "t", "e", "s", ")">>],
         Paragraph |->
            [PARAGRAPH_STYLE |-> paragraph.style.name,
             ALIGNMENT |-> get_alignment_string(paragraph.alignment),
             INDENTATION |->
                <<"L", "e", "f", "t", ":", " ">> \o
                (IF AttrTruthy(paragraph.left_indent) THEN FormatInch(paragraph.left_indent)
                 ELSE <<"0", DQ>>)
                \o <<NL, "R", "i", "g", "h", "t", ":", " ">> \o
                (IF AttrTruthy(paragraph.right_indent) THEN FormatInch(paragraph.right_indent)
                 ELSE <<"0", DQ>>),
             SPACING |->
                <<"B", "e", "f", "o", "r", "e", ":", " ">> \o
                (IF AttrTruthy(paragraph.space_before) THEN FormatPt(paragraph.space_before)
                 ELSE <<"0", " ", "p", "t">>)
                \o <<NL, "A", "f", "t", "e", "r", ":", " ">> \o
                (IF AttrTruthy(paragraph.space_after) THEN FormatPt(paragraph.space_after)
                 ELSE <<"0", " ", "p", "t">>)
                \o LineSpacingPrefix \o
                LineSpacingLabel(paragraph.line_spacing_rule, paragraph.line_spacing),
             BREAKS |->
                CASE AttrTruthy(paragraph.keep_with_next)
                        /\ AttrTruthy(paragraph.page_break_before) ->
                        <<"K", "e", "e", "p", " ", "w", "i", "t", "h", " ", "n", "e", "x", "t">> \o <<",", " ">> \o <<"P", "a", "g", "e", " ", "b", "r", "e", "a", "k", " ", "b", "e", "f", "o", "r", "e">>
                  [] AttrTruthy(paragraph.keep_with_next)
                        /\ ~AttrTruthy(paragraph.page_break_before) -> <<"K", "e", "e", "p", " ", "w", "i", "t", "h", " ", "n", "e", "x", "t">>
                  [] ~AttrTruthy(paragraph.keep_with_next)
                        /\ AttrTruthy(paragraph.page_break_before) -> <<"P", "a", "g", "e", " ", "b", "r", "e", "a", "k", " ", "b", "e", "f", "o", "r", "e">>
                  [] OTHER -> <<"N", "o", "n", "e">>]]]


RECURSIVE StripCells(_)
\* get_table_data, line 169: the stripped text of the cells of one row
StripCells(cells) ==
    IF cells = <<>> THEN <<>> ELSE <<Strip(Head(cells))>> \o StripCells(Tail(cells))

\* get_table_data
get_table_data(table, table_index, block_index) ==
    [type |-> Str(<<"t", "a", "b", "l", "e">>),
     block_index |-> block_index,
     table_index |-> table_index,
     row_count |-> Len(table.rows),
     column_count |-> IF table.rows = <<>> THEN 0
                      ELSE CHOOSE c \in {Len(table.rows[n]) : n \in 1..Len(table.rows)} :
                              \A n \in 1..Len(table.rows) : Len(table.rows[n]) <= c,
     rows |-> [n \in 1..Len(table.rows) |-> StripCells(table.rows[n])],
     formatting |->
        [Table |->
            [TABLE_STYLE |-> IF table.style # None /\ AttrTruthy(table.style.name)
                             THEN table.style.name.v ELSE <<"(", "D", "e", "f", "a", "u", "l", "t", ")">>,
             ALIGNMENT |->
                CASE table.alignment = Enum("CENTER") -> <<"C", "e", "n", "t", "e", "r">>
                  [] table.alignment = Enum("RIGHT") -> <<"R", "i", "g", "h", "t">>
                  [] table.alignment = Enum("LEFT") -> <<"L", "e", "f", "t">>
                  [] OTHER -> <<"L", "e", "f", "t", " ", "(", "D", "e", "f", "a", "u", "l", "t", ")">>]]]

RECURSIVE ExtractBlocks(_, _, _, _)
\* extract_formatting_from_file, lines 218-230: the loop over
\* doc.iter_inner_content() from block block_index on
ExtractBlocks(blocks, block_index, paragraph_index, table_index) ==
    CASE block_index >= Len(blocks) -> <<>>
      [] block_index < Len(blocks) /\ blocks[block_index + 1].kind = "paragraph"
            /\ Strip(blocks[block_index + 1].text) = <<>> ->
            ExtractBlocks(blocks, block_index + 1, paragraph_index, table_index)
      [] block_index < Len(blocks) /\ blocks[block_index + 1].kind = "paragraph"
            /\ Strip(blocks[block_index + 1].text) # <<>> ->
            <<[type |-> Str(<<"p", "a", "r", "a", "g", "r", "a", "p", "h">>), block_index |-> block_index]
                @@ get_paragraph_formatting(blocks[block_index + 1], paragraph_index)>>
            \o ExtractBlocks(blocks, block_index + 1, paragraph_index + 1, table_index)
      [] OTHER ->
            <<get_table_data(blocks[block_index + 1], table_index, block_index)>>
            \o ExtractBlocks(blocks, block_index + 1, paragraph_index, table_index + 1)

\* extract_formatting_from_file, doc being the blocks of the document in order
extract_formatting_from_file(doc) == ExtractBlocks(doc, 0, 0, 0)


(***************************************************************************)
(* Reference documents, and the round trip through DocxAssembler.          *)
(***************************************************************************)
\* the looks of the reference paragraphs: a centred 14 pt title with direct
\* run formatting, a body paragraph that takes its font from its style, and a
\* justified paragraph with no font set anywhere
Looks == <<
    [text |-> <<"T">>,
     run |-> [font |-> [name |-> Str(<<"A", "r", "i", "a", "l">>), size |-> Length(177800)]],
     style |-> [name |-> <<"T", "i", "t", "l", "e">>, font |-> [name |-> None, size |-> None]],
     alignment |-> Enum("CENTER"),
     left_indent |-> None, right_indent |-> None,
     space_before |-> None, space_after |-> Length(152400),
     keep_with_next |-> Bool(TRUE), page_break_before |-> None],
    [text |-> <<"b", "o", "d", "y">>,
     run |-> [font |-> [name |-> None, size |-> None]],
     style |-> [name |-> Normal_,
                font |-> [name |-> Str(<<"C", "a", "l", "i", "b", "r", "i">>), size |-> Length(139700)]],
     alignment |-> None,
     left_indent |-> Length(457200), right_indent |-> None,
     space_before |-> Length(76200), space_after |-> None,
     keep_with_next |-> None, page_break_before |-> None],
    [text |-> <<" ", "j", " ">>,
     run |-> None,
     style |-> [name |-> Normal_, font |-> [name |-> None, size |-> None]],
     alignment |-> Enum("JUSTIFY"),
     left_indent |-> None, right_indent |-> Length(914400),
     space_before |-> None, space_after |-> None,
     keep_with_next |-> None, page_break_before |-> Bool(TRUE)] >>

\* line_spacing_rule and line_spacing as python-docx reports them together:
\* unset; single, one and a half, double; a multiple of lines (a float); at
\* least or exactly a Length, which is a whole number of twentieths of a point
LineSpacings == <<
    [line_spacing_rule |-> None, line_spacing |-> None],
    [line_spacing_rule |-> Enum("SINGLE"), line_spacing |-> Float(100)],
    [line_spacing_rule |-> Enum("ONE_POINT_FIVE"), line_spacing |-> Float(150)],
    [line_spacing_rule |-> Enum("DOUBLE"), line_spacing |-> Float(200)],
    [line_spacing_rule |-> Enum("MULTIPLE"), line_spacing |-> Float(999)],
    [line_spacing_rule |-> Enum("MULTIPLE"), line_spacing |-> Float(1000)],
    [line_spacing_rule |-> Enum("MULTIPLE"), line_spacing |-> Float(2400)],
    [line_spacing_rule |-> Enum("EXACTLY"), line_spacing |-> Length(304800)],
    [line_spacing_rule |-> Enum("EXACTLY"), line_spacing |-> Length(127000)],
    [line_spacing_rule |-> Enum("AT_LEAST"), line_spacing |-> Length(0)] >>

\* the blocks a reference document is made of: a paragraph per line spacing,
\* a paragraph without visible text, and a table
ReferenceBlocks ==
    {[kind |-> "paragraph"] @@ Looks[(n % Len(Looks)) + 1] @@ LineSpacings[n] :
        n \in 1..Len(LineSpacings)}
    \cup {[kind |-> "paragraph", text |-> <<" ">>] @@ Looks[2] @@ LineSpacings[1]}
    \cup {[kind |-> "table", rows |-> << <<<<" ", "c">>, <<>>>> >>, style |-> None,
           alignment |-> Enum("CENTER")]}

MaxBlocks == 2

ReferenceDocuments == UNION {[1..n -> ReferenceBlocks] : n \in 0..MaxBlocks}

\* the blueprint, the generated texts and the strip_leading_section_title flag
\* given to assemble_to_docx
DocxSectionInputs ==
    {[blueprint |-> [sections |-> <<[name |-> <<"A">>], [name |-> <<"B">>]>>],
      sections |-> <<[k |-> <<"A">>, v |-> <<"A", NL, "p", NL, NL, "q">>],
                     [k |-> <<"B">>, v |-> <<"r">>]>>,
      strip_leading_section_title |-> b] : b \in BOOLEAN}
    \cup
    {[blueprint |-> [sections |-> <<[name |-> <<"B">>], [id |-> 1], [name |-> <<"A">>]>>],
      sections |-> <<[k |-> <<"A">>, v |-> <<"p", NL, NL, " ", NL, NL, "q", NL, NL, "r">>]>>,
      strip_leading_section_title |-> TRUE]}

DocxInit ==
    /\ dpc = "reference"
    /\ reference \in ReferenceDocuments
    /\ formatting_blocks = <<>>
    /\ dsections \in DocxSectionInputs
    /\ section_formatting_map = None
    /\ document = <<>>

\* extract_formatting_from_file on the reference document; its result is the
\* formatting_blocks argument of DocxAssembler
ExtractFormatting ==
    /\ dpc = "reference"
    /\ formatting_blocks' = extract_formatting_from_file(reference)
    /\ dpc' = "blocks"
    /\ UNCHANGED <<reference, dsections, section_formatting_map, document, exceptDocx>>

\* DocxAssembler(formatting_blocks).assemble_to_docx(...)
AssembleToDocx ==
    /\ dpc = "blocks"
    /\ apc \in {"idle", "returned"}
    /\ document' = assemble_to_docx(formatting_blocks, dsections.blueprint, dsections.sections,
                                    dsections.strip_leading_section_title,
                                    section_formatting_map)
    /\ dpc' = "assembled"
    /\ UNCHANGED <<reference, formatting_blocks, dsections, section_formatting_map, exceptDocx>>

InitDocx == GenIdle /\ JsonIdle /\ ExtIdle /\ AsgIdle /\ DocxInit /\ HelpersIdle

NextDocx == ExtractFormatting \/ AssembleToDocx

SpecDocx == InitDocx /\ [][NextDocx]_vars


(***************************************************************************)
(* assign_formatting_by_llm as a whole, and its state machine.             *)
(***************************************************************************)
\* line 66: not section_names or not applyables
NothingToAssignStrict(names, applyables) == names = <<>>

\* line 66: not section_names or not applyables
NothingToAssign(names, applyables) == names = <<>> \/ applyables = <<>>

\* build_formatting_assignment_prompt: the section names and one summary line
\* per applyable, numbered from 0
build_formatting_assignment_prompt(names, applyables) ==
    [template |-> "assign", section_names |-> names, options |-> Len(applyables)]

\* lines 77-98, parsed being the outcome of extract_json_from_llm(response):
\* the dict returned, or None (a ValueError of the extractor and an exception
\* of the loop both reach line 99)
AssignmentFrom(parsed, names, n) ==
    CASE parsed.status # "ok" -> None
      [] parsed.status = "ok" /\ ~IsDict(parsed.val) -> None
      [] parsed.status = "ok" /\ IsDict(parsed.val)
            /\ AssignLoop(parsed.val, names, n, <<>>).error # "none" -> None
      [] OTHER -> [t |-> "dict", v |-> AssignLoop(parsed.val, names, n, <<>>).result]

\* assign_formatting_by_llm(section_names, applyables), out being what
\* llm.generate does if it is called: the value returned and the calls made
assign_formatting_by_llm(names, applyables, out) ==
    CASE NothingToAssign(names, applyables) -> [value |-> None, calls |-> <<>>]
      [] ~NothingToAssign(names, applyables) /\ out.raised ->
            [value |-> None,
             calls |-> <<[prompt |-> build_formatting_assignment_prompt(names, applyables),
                          out |-> out]>>]
      [] OTHER ->
            [value |-> AssignmentFrom(extract_json_from_llm(out.text), names, Len(applyables)),
             calls |-> <<[prompt |-> build_formatting_assignment_prompt(names, applyables),
                          out |-> out]>>]

\* what the model may answer for one section in its JSON object
AnswerKinds == {"in_range", "negative", "too_large", "numeric_string", "fraction",
                "non_numeric", "infinity", "other_key", "absent"}

\* the member of the JSON object for one section, or nothing
AnswerFor(name, kind) ==
    CASE kind = "in_range" -> <<<<DQ>> \o name \o <<DQ, ":", " ", "1">>>>
      [] kind = "negative" -> <<<<DQ>> \o name \o <<DQ, ":", " ", "-", "1">>>>
      [] kind = "too_large" -> <<<<DQ>> \o name \o <<DQ, ":", " ", "7">>>>
      [] kind = "numeric_string" -> <<<<DQ>> \o name \o <<DQ, ":", " ", DQ, "1", DQ>>>>
      [] kind = "fraction" -> <<<<DQ>> \o name \o <<DQ, ":", " ", DQ, " ", "1", ".", "9", DQ>>>>
      [] kind = "non_numeric" -> <<<<DQ>> \o name \o <<DQ, ":", " ", DQ, "x", DQ>>>>
      [] kind = "infinity" -> <<<<DQ>> \o name \o <<DQ, ":", " ", DQ, "i", "n", "f", DQ>>>>
      [] kind = "other_key" -> <<<<DQ, " ">> \o Lower(name) \o <<" ", DQ, ":", " ", "2">>>>
      [] OTHER -> <<>>

RECURSIVE AnswerMembers(_, _)
\* the members of the JSON object, kinds[n] being the kind of answer for names[n]
AnswerMembers(names, kinds) ==
    IF names = <<>> THEN <<>>
    ELSE AnswerFor(Head(names), Head(kinds)) \o AnswerMembers(Tail(names), Tail(kinds))

\* the responses of the LLM to the assignment prompt: a JSON object with an
\* answer of some kind per section, a JSON array, text that is no JSON
AssignResponses(names) ==
    {<<"{">> \o JoinWith(AnswerMembers(names, kinds), <<",", " ">>) \o <<"}">> :
        kinds \in [1..Len(names) -> AnswerKinds]}
    \cup {<<"[", "0", ",", " ", "1", "]">>, <<"n", "o">>}

\* llm.generate raises or returns one of the responses
AssignOutcomes(names) == {LlmRaises} \cup {LlmReturns(t) : t \in AssignResponses(names)}

\* the specs of three reference paragraphs, as a style reference would give them
Applyables == <<
    [font_name |-> Str(<<"A", "r", "i", "a", "l">>), font_size_pt |-> Float(1400),
     alignment |-> Str(<<"c", "e", "n", "t", "e", "r">>),
     space_after_pt |-> Float(1200), keep_with_next |-> Bool(TRUE),
     paragraph_style |-> Str(<<"T", "i", "t", "l", "e">>),
     line_spacing_rule |-> Str(<<"m", "u", "l", "t", "i", "p", "l", "e">>),
     line_spacing_value |-> Float(150)],
    [font_name |-> Str(<<"C", "a", "l", "i", "b", "r", "i">>), font_size_pt |-> Float(1100),
     alignment |-> Str(Left_), left_indent_in |-> Float(50),
     space_before_pt |-> Float(600),
     line_spacing_rule |-> Str(<<"e", "x", "a", "c", "t">>),
     line_spacing_value |-> Float(2400)],
    [font_name |-> None, font_size_pt |-> None,
     alignment |-> Str(<<"J", "u", "s", "t", "i", "f", "y">>),
     right_indent_in |-> Float(100), page_break_before |-> Bool(TRUE),
     paragraph_style |-> Str(<<"Q", "u", "o", "t", "e">>)] >>

\* a paragraph block that carries a spec, and a table block
ApplyableBlock(n) ==
    [type |-> Str(<<"p", "a", "r", "a", "g", "r", "a", "p", "h">>), block_index |-> n - 1,
     applyable |-> Applyables[n]]

TableBlock == [type |-> Str(<<"t", "a", "b", "l", "e">>), block_index |-> 1]

\* the formatting_blocks of a style reference with no, one, two or three
\* paragraphs that carry a spec
ApplyableBlockLists ==
    {<<>>, <<ApplyableBlock(1)>>, <<ApplyableBlock(1), ApplyableBlock(2)>>,
     <<ApplyableBlock(1), TableBlock, ApplyableBlock(2), ApplyableBlock(3)>>}

\* the section_names argument
MaxNames == 2

AssignNames == {<<"A">>, <<"B">>}

SectionNameLists ==
    {s \in UNION {[1..n -> AssignNames] : n \in 0..MaxNames} :
        \A i, j \in 1..Len(s) : i # j => s[i] # s[j]}

AsgInit ==
    /\ apc = "start"
    /\ section_names \in SectionNameLists
    /\ acalls = <<>>
    /\ dpc = "blocks"
    /\ reference = <<>>
    /\ formatting_blocks \in ApplyableBlockLists
    /\ dsections \in DocxSectionInputs
    /\ section_formatting_map = None
    /\ document = <<>>

\* section_formatting_map = assign_formatting_by_llm(section_names, applyables),
\* the applyables being those of the style reference
AssignFormatting ==
    /\ apc = "start"
    /\ \E out \in AssignOutcomes(section_names) :
        \E r \in {assign_formatting_by_llm(section_names,
                        _paragraph_applyables_list(formatting_blocks), out)} :
            /\ section_formatting_map' = r.value
            /\ acalls' = r.calls
    /\ apc' = "returned"
    /\ UNCHANGED <<section_names, dpc, reference, formatting_blocks, dsections, document,
                   exceptAsg>>

InitAssign == GenIdle /\ JsonIdle /\ ExtIdle /\ AsgInit /\ HelpersIdle

NextAssign == AssignFormatting \/ AssembleToDocx

SpecAssign == InitAssign /\ [][NextAssign]_vars

(***************************************************************************)
(* Claims about the formatting extractor and the round trip.               *)
(***************************************************************************)
ParagraphType == Str(<<"p", "a", "r", "a", "g", "r", "a", "p", "h">>)

\* the paragraph blocks of the extractor's output, in order
ParagraphBlocks == SelectSeq(formatting_blocks, LAMBDA b : b.type = ParagraphType)

\* the reference paragraph a block of the extractor's output was made from
ReferenceOf(block) == reference[block.block_index + 1]

EndsWith(s, suffix) ==
    Len(s) >= Len(suffix) /\ SubSeq(s, Len(s) - Len(suffix) + 1, Len(s)) = suffix

\* what an attribute of the reference paragraph resolves to: its value, or the
\* number the extractor reports for an unset one
ValueOr(v, default) == IF AttrTruthy(v) THEN v.v ELSE default

\* an output paragraph carries the values of a reference paragraph: font name
\* and size (where the reference resolves one), alignment, indentation and
\* spacing before and after
CarriesValuesOf(format, p) ==
    /\ AttrTruthy(Resolved(p, "name")) => format.font_name = Resolved(p, "name").v
    /\ AttrTruthy(Resolved(p, "size")) => format.font_size = Resolved(p, "size").v
    /\ format.alignment = IF p.alignment = None THEN "LEFT" ELSE p.alignment.v
    /\ format.left_indent = ValueOr(p.left_indent, 0)
    /\ format.right_indent = ValueOr(p.right_indent, 0)
    /\ format.space_before = ValueOr(p.space_before, 0)
    /\ format.space_after = ValueOr(p.space_after, 0)

\* C15: round trip: once the extractor's output for a reference document has
\* been given to DocxAssembler, every paragraph assemble_to_docx wrote carries
\* the font name, font size, alignment, indentation and spacing of the
\* reference paragraph it is mapped to (paragraph k to the k-th retained
\* reference paragraph, cycling)
C15_RoundTripReproducesValues ==
    (dpc = "assembled" /\ ParagraphBlocks # <<>>) =>
        \A k \in 1..Len(document) :
            CarriesValuesOf(document[k].format,
                ReferenceOf(ParagraphBlocks[((k - 1) % Len(ParagraphBlocks)) + 1]))

\* the class the extractor gave a paragraph's line spacing, read off its label
SpacingClass(block) ==
    CASE EndsWith(block.formatting.Paragraph.SPACING, LineSpacingPrefix \o SingleLabel) -> "single"
      [] EndsWith(block.formatting.Paragraph.SPACING, LinesSuffix) -> "multiple"
      [] EndsWith(block.formatting.Paragraph.SPACING, <<" ", "p", "t">>) -> "exact"
      [] OTHER -> "other"

\* the stored value is below 10: a float below 10.0, a Length below 10
Below10(line_spacing) ==
    IF line_spacing.t = "float" THEN line_spacing.v < 1000 ELSE line_spacing.v < 10

\* the classes of claim C16 for one paragraph, `stored` telling whether the
\* paragraph counts as having a value stored
SpacingClassIs(block, stored) ==
    IF ReferenceOf(block).line_spacing_rule # WdLineSpaceSingle /\ stored
    THEN SpacingClass(block) =
            IF Below10(ReferenceOf(block).line_spacing) THEN "multiple" ELSE "exact"
    ELSE SpacingClass(block) = "single"

\* C16 as stated: with a rule that is not single and a value stored, a value
\* below 10 is classified a line multiple and a value of 10 or more an exact
\* point size; a single rule or a missing value is classified single
C16_StoredValueClassified ==
    \A k \in 1..Len(ParagraphBlocks) :
        SpacingClassIs(ParagraphBlocks[k],
                       ReferenceOf(ParagraphBlocks[k]).line_spacing # None)

\* C16, amended: with a rule that is not single and a non-zero value stored, a
\* value below 10 is classified a line multiple and a value of 10 or more an
\* exact point size; a single rule, a missing value or a stored value of zero
\* is classified single
C16_NonZeroValueClassified ==
    \A k \in 1..Len(ParagraphBlocks) :
        SpacingClassIs(ParagraphBlocks[k],
                       AttrTruthy(ReferenceOf(ParagraphBlocks[k]).line_spacing))

\* the extractor has classified a stored 1.5 as multiple, a stored value of
\* exactly 10 as exact, in one document
C16_Witness ==
    /\ Len(ParagraphBlocks) = 2
    /\ ReferenceOf(ParagraphBlocks[1]).line_spacing = Float(150)
    /\ SpacingClass(ParagraphBlocks[1]) = "multiple"
    /\ ReferenceOf(ParagraphBlocks[2]).line_spacing = Float(1000)
    /\ ReferenceOf(ParagraphBlocks[2]).line_spacing_rule = Enum("MULTIPLE")
    /\ SpacingClass(ParagraphBlocks[2]) = "exact"


(***************************************************************************)
(* Claims about assign_formatting_by_llm.                                  *)
(***************************************************************************)
\* the applyables argument of the call
AssignApplyables == _paragraph_applyables_list(formatting_blocks)

\* the entries of the returned mapping for a name
EntriesFor(name) == {n \in 1..Len(section_formatting_map.v) :
                        section_formatting_map.v[n].k = name}

\* C11: for non-empty section names and N >= 1 specs, every value of a
\* mapping assign_formatting_by_llm returned is an integer in [0, N-1],
\* whatever the model answered for the section, and every requested section
\* name has an entry in the mapping
C11_IndicesInRange ==
    (apc = "returned" /\ section_formatting_map # None
        /\ section_names # <<>> /\ Len(AssignApplyables) >= 1) =>
        /\ \A n \in 1..Len(section_formatting_map.v) :
                section_formatting_map.v[n].v \in 0..(Len(AssignApplyables) - 1)
        /\ \A i \in 1..Len(section_names) : EntriesFor(section_names[i]) # {}

\* a mapping was returned for two sections and two specs, the model having
\* answered 7 for the first and -1 for the second: they are given 1 and 0
C11_Witness ==
    /\ apc = "returned"
    /\ section_names = << <<"A">>, <<"B">> >>
    /\ Len(AssignApplyables) = 2
    /\ Len(acalls) = 1
    /\ ~acalls[1].out.raised
    /\ acalls[1].out.text = <<"{">> \o JoinWith(AnswerMembers(section_names,
                                <<"too_large", "negative">>), <<",", " ">>) \o <<"}">>
    /\ section_formatting_map # None
    /\ section_formatting_map.v = <<[k |-> <<"A">>, v |-> 1], [k |-> <<"B">>, v |-> 0]>>

\* the call was made and failed as a whole: the LLM raised, or its response is
\* not recoverable as a JSON object
WholeCallFailed ==
    /\ Len(acalls) = 1
    /\ \/ acalls[1].out.raised
       \/ extract_json_from_llm(acalls[1].out.text).status # "ok"
       \/ ~IsDict(extract_json_from_llm(acalls[1].out.text).val)

\* C12 as stated: when the whole call fails with non-empty section names and
\* specs, every requested section defaults to index 0, in the mapping and so
\* in the document assembled with it; only an empty section list or an empty
\* spec list gives no assignment, and then the model is not called
C12_FailedCallDefaultsToZero ==
    apc = "returned" =>
        /\ (section_names # <<>> /\ AssignApplyables # <<>> /\ WholeCallFailed) =>
            /\ section_formatting_map # None
            /\ \A i \in 1..Len(section_names) :
                    MapGet(section_formatting_map.v, section_names[i], 0 - 1) = 0
            /\ dpc = "assembled" =>
                    \A k \in 1..Len(document) :
                        document[k].section \in {section_names[i] : i \in 1..Len(section_names)}
                            => document[k].applyable = AssignApplyables[1]
        /\ section_formatting_map = None =>
            (section_names = <<>> \/ AssignApplyables = <<>>)
        /\ (section_names = <<>> \/ AssignApplyables = <<>>) =>
            (section_formatting_map = None /\ acalls = <<>>)

\* C12, amended: when the whole call fails with non-empty section names and
\* specs, the result is no assignment, after one call of the model; an empty
\* section list or an empty spec list gives no assignment too, and only then
\* is the model not called
C12_FailedCallGivesNoAssignment ==
    apc = "returned" =>
        /\ (section_names # <<>> /\ AssignApplyables # <<>> /\ WholeCallFailed) =>
            section_formatting_map = None
        /\ (section_names # <<>> /\ AssignApplyables # <<>>) => Len(acalls) = 1
        /\ (section_names = <<>> \/ AssignApplyables = <<>>) =>
            (section_formatting_map = None /\ acalls = <<>>)

\* the LLM raised on a call for two sections and two specs, and the document
\* was then assembled with no assignment: its paragraphs cycle through the specs
C12_Witness ==
    /\ apc = "returned"
    /\ section_names = << <<"A">>, <<"B">> >>
    /\ Len(AssignApplyables) = 2
    /\ Len(acalls) = 1
    /\ acalls[1].out.raised
    /\ section_formatting_map = None
    /\ dpc = "assembled"
    /\ Len(document) >= 2
    /\ document[2].applyable = AssignApplyables[2]


(***************************************************************************)
(* Assembler.assemble: its inputs and its state machine.                   *)
(***************************************************************************)
\* how a generated text may begin: with the section name as a title line in
\* some dress, with a line that is not the name, or with no title at all
TitleKinds == {"exact", "lower", "enum", "paren", "hash", "bold", "under", "enum_bold",
               "bold_enum", "longer", "other", "none"}

TitleLine(kind, name) ==
    CASE kind = "exact" -> name
      [] kind = "lower" -> Lower(name)
      [] kind = "enum" -> <<"1", ".", " ">> \o name
      [] kind = "paren" -> <<"2", ")", " ">> \o name \o <<" ">>
      [] kind = "hash" -> <<"#", "#", " ">> \o name
      [] kind = "bold" -> <<"*", "*">> \o name \o <<"*", "*">>
      [] kind = "under" -> <<"_">> \o name \o <<"_">>
      [] kind = "enum_bold" -> <<"1", ".", " ", "*", "*">> \o name \o <<"*", "*">>
      [] kind = "bold_enum" -> <<"*", "*", "1", ".", " ">> \o name \o <<"*", "*">>
      [] kind = "longer" -> name \o <<" ", "x">>
      [] OTHER -> <<"I", "n", "t", "r", "o">>

\* what may follow the title line
Bodies == {<<>>, <<"p">>, <<"p", NL, NL, "q">>, <<" ", NL, "p", " ">>}

\* a generated text: the title line, then the body on the lines after it
BuildText(kind, name, body) ==
    CASE kind = "none" -> body
      [] kind # "none" /\ body = <<>> -> TitleLine(kind, name)
      [] OTHER -> TitleLine(kind, name) \o <<NL>> \o body

AssembleNames == {<<"A", "b">>, <<"C">>}

MaxBlueprint == 2

\* blueprints of up to MaxBlueprint sections
AssembleBlueprints ==
    {[sections |-> [i \in 1..Len(names) |-> [name |-> names[i], purpose |-> <<"p">>]]] :
        names \in UNION {[1..n -> AssembleNames] : n \in 0..MaxBlueprint}}

\* the entries a sections map may hold: any built text for the first name, a
\* few texts for the second, and an entry for a name no blueprint has
EntriesOf(name, texts) == {<<>>} \cup {<<[k |-> name, v |-> t]>> : t \in texts}

SectionMaps ==
    {IF forward THEN a \o c \o z ELSE z \o c \o a :
        a \in EntriesOf(<<"A", "b">>,
                {BuildText(kind, <<"A", "b">>, body) : kind \in TitleKinds, body \in Bodies}),
        c \in EntriesOf(<<"C">>, {<<"r">>, <<" ">>, <<"C", NL, "p">>}),
        z \in EntriesOf(<<"Z">>, {<<"z", "z">>}),
        forward \in BOOLEAN}

AsmInit ==
    /\ mpc = "start"
    /\ mblueprint \in AssembleBlueprints
    /\ msections \in SectionMaps
    /\ mtext = <<>>

\* Assembler().assemble(blueprint, sections)
Assemble ==
    /\ mpc = "start"
    /\ mtext' = assemble(mblueprint, msections)
    /\ mpc' = "returned"
    /\ UNCHANGED <<mblueprint, msections, exceptAsm>>

InitAssemble ==
    GenIdle /\ JsonIdle /\ ExtIdle /\ AsgIdle /\ DocxIdle /\ AsmInit /\ FindIdle /\ ParseIdle

NextAssemble == Assemble

SpecAssemble == InitAssemble /\ [][NextAssemble]_vars

(***************************************************************************)
(* Claims about Assembler.assemble.                                        *)
(***************************************************************************)
\* the title lines that are the section name once leading enumeration and
\* emphasis markers are ignored, and those that are not
MatchingKinds == {"exact", "lower", "enum", "paren", "hash", "bold", "under", "enum_bold"}

OtherKinds == {"longer", "other", "none"}

\* the section text of the single section of the blueprint
OnlyText == Strip(MapGet(msections, mblueprint.sections[1].name, <<>>))

BodyOf(name, text) ==
    LET hits == {b \in Bodies :
                    Strip(b) # <<>> /\ \E kind \in MatchingKinds :
                        Strip(BuildText(kind, name, b)) = Strip(text)}
    IN  IF hits = {} THEN Strip(text) ELSE Strip(CHOOSE b \in hits : TRUE)

\* the bodies of the blueprint's sections, in blueprint order
BlueprintBodies ==
    [i \in 1..Len(mblueprint.sections) |->
        BodyOf(mblueprint.sections[i].name,
               MapGet(msections, mblueprint.sections[i].name, <<>>))]

\* C14: assemble returns the bodies of the blueprint's sections joined by
\* exactly "\n\n", in blueprint order whatever the order of the text map;
\* sections with no text or only white space leave nothing, not even a
\* separator, and entries whose name is not in the blueprint do not appear
C14_BodiesJoinedInBlueprintOrder ==
    mpc = "returned" =>
        mtext = JoinWith(SelectSeq(BlueprintBodies, LAMBDA b : b # <<>>), <<NL, NL>>)

\* the map holds Z, C and Ab in that order, the blueprint Ab then C: the text
\* is the body of Ab, a blank line, the body of C, and nothing of Z
C14_Witness ==
    /\ mpc = "returned"
    /\ Len(mblueprint.sections) = 2
    /\ mblueprint.sections[1].name = <<"A", "b">>
    /\ mblueprint.sections[2].name = <<"C">>
    /\ msections = <<[k |-> <<"Z">>, v |-> <<"z", "z">>],
                     [k |-> <<"C">>, v |-> <<"C", NL, "p">>],
                     [k |-> <<"A", "b">>, v |-> <<"A", "b", NL, "p", NL, NL, "q">>]>>
    /\ mtext = <<"p", NL, NL, "q", NL, NL, "p">>


(***************************************************************************)
(* Claims about the fallback template and the structuring response.        *)
(***************************************************************************)
\* the combined cleaned text of the two sample documents
CombinedText == clean_text(doc1) \o <<NL>> \o clean_text(doc2)

\* the combined cleaned text contains the word, whatever the case
HasWord(word) == Contains(Lower(CombinedText), word)

\* the condition of claim C17 for the motion template
MotionCondition ==
    /\ HasWord(<<"m", "o", "t", "i", "o", "n">>)
    /\ ~(HasWord(<<"s", "u", "m", "m", "o", "n", "s">>)
         /\ HasWord(<<"c", "o", "m", "p", "l", "a", "i", "n", "t">>))

\* C17: the fallback template is the motion template exactly when the
\* combined cleaned text contains "motion" and does not contain both
\* "summons" and "complaint", in any case; otherwise, and for every other
\* guessed type, it is the 13-section complaint template
C17_FallbackTemplateByKeyword ==
    (Returned /\ "fallback_used" \in DOMAIN blueprint /\ blueprint.fallback_used = TRUE) =>
        /\ MotionCondition =>
                blueprint.sections = AsSections(_DEFAULT_MOTION_SECTIONS)
        /\ ~MotionCondition =>
                (blueprint.sections = AsSections(_DEFAULT_COMPLAINT_SECTIONS)
                 /\ Len(blueprint.sections) = 13)

\* the fallback was the motion template for documents that have "MOTION" and
\* "summons" but not "complaint"
C17_Witness ==
    /\ Returned
    /\ "fallback_used" \in DOMAIN blueprint
    /\ HasWord(<<"m", "o", "t", "i", "o", "n">>)
    /\ HasWord(<<"s", "u", "m", "m", "o", "n", "s">>)
    /\ doc1 # Lower(doc1)
    /\ blueprint.sections = AsSections(_DEFAULT_MOTION_SECTIONS)

\* the response is, as JSON, an array of at least 5 objects that have a name
IsSectionArray(text) ==
    /\ JsonLoads(text).ok
    /\ IsList(JsonLoads(text).val)
    /\ Len(JsonLoads(text).val.v) >= 5
    /\ \A n \in 1..Len(JsonLoads(text).val.v) :
            /\ IsDict(JsonLoads(text).val.v[n])
            /\ DictGet(JsonLoads(text).val.v[n], <<"n", "a", "m", "e">>) # None

\* the names of the objects of the array, in order
ArrayNames(text) ==
    [n \in 1..Len(JsonLoads(text).val.v) |->
        DictGet(JsonLoads(text).val.v[n], <<"n", "a", "m", "e">>).v]

\* C18: a structuring response that is a top-level JSON array of at least 5
\* {name, purpose} objects, with no wrapper object, is used as the sections
\* array: the attempt succeeds, generate returns, and the sections are those
\* of the array, in order
C18_TopLevelArrayAccepted ==
    \A k \in 1..Len(calls) :
        (calls[k].prompt.template = "struct" /\ ~calls[k].out.raised
            /\ IsSectionArray(calls[k].out.text)) =>
            /\ k = Len(calls)
            /\ Returned
            /\ "fallback_used" \notin DOMAIN blueprint
            /\ [n \in 1..Len(blueprint.sections) |-> blueprint.sections[n].name]
                    = ArrayNames(calls[k].out.text)


(***************************************************************************)
(* _find_sections_list: its inputs and its state machine.                  *)
(***************************************************************************)
\* the keys of the parsed JSON: name, the first and the last of the known
\* container keys, and two keys that are not known
FindKeys == {<<"n", "a", "m", "e">>, <<"s", "e", "c", "t", "i", "o", "n", "s">>,
             <<"c", "h", "a", "p", "t", "e", "r", "s">>, <<"x">>, <<"y">>}

\* the values of the parsed JSON, as JSON text: a string, an empty and two
\* non-empty lists, and objects that hold a list, an empty list, a name, a
\* known key
FindValues == {
    <<DQ, "t", DQ>>,
    <<"[", "]">>,
    <<"[", DQ, "A", DQ, "]">>,
    <<"[", DQ, "B", DQ, ",", DQ, "C", DQ, "]">>,
    <<"{", DQ, "z", DQ, ":", DQ, "t", DQ, ",", DQ, "w", DQ, ":", "[", DQ, "B", DQ, ",", DQ, "C", DQ, "]", "}">>,
    <<"{", DQ, "q", DQ, ":", "[", "]", "}">>,
    <<"{", DQ, "n", "a", "m", "e", DQ, ":", DQ, "n", DQ, "}">>,
    <<"{", DQ, "w", DQ, ":", "[", DQ, "A", DQ, "]", ",", DQ, "i", "t", "e", "m", "s", DQ, ":", "[", DQ, "B", DQ, ",", DQ, "C", DQ, "]", "}">> }

MaxEntries == 2

\* the member of a JSON object for one key
MemberText(key, value) == <<DQ>> \o key \o <<DQ, ":">> \o value

\* the JSON objects of up to MaxEntries entries with distinct keys, in every
\* order, as JSON text
FindObjects ==
    {<<"{">> \o JoinWith([n \in 1..Len(kv[1]) |-> MemberText(kv[1][n], kv[2][n])], <<",">>)
        \o <<"}">> :
        kv \in UNION {
            {c \in [1..n -> FindKeys] \X [1..n -> FindValues] :
                \A i, j \in 1..n : i # j => c[1][i] # c[1][j]} : n \in 0..MaxEntries}}

\* the JSON text of the data argument: an object, or a list or a string
FindInit ==
    /\ fpc = "start"
    /\ fdata \in FindObjects \cup {<<"[", "]">>, <<"[", DQ, "B", DQ, ",", DQ, "C", DQ, "]">>, <<DQ, "t", DQ>>}
    /\ ffound = <<>>

\* found = _find_sections_list(data), data being json.loads of the text
FindSections ==
    /\ fpc = "start"
    /\ ffound' = _find_sections_list(JsonLoads(fdata).val)
    /\ fpc' = "returned"
    /\ UNCHANGED <<fdata, exceptFind>>

InitFind ==
    GenIdle /\ JsonIdle /\ ExtIdle /\ AsgIdle /\ DocxIdle /\ AsmIdle /\ FindInit /\ ParseIdle

NextFind == FindSections

SpecFind == InitFind /\ [][NextFind]_vars

(***************************************************************************)
(* Claims about _find_sections_list.                                       *)
(***************************************************************************)
NameKey == <<"n", "a", "m", "e">>

\* the data argument
FindData == JsonLoads(fdata).val

HasKey(d, key) == \E n \in 1..Len(d.v) : d.v[n].k = key

NonEmptyList(v) == v.t = "arr" /\ v.v # <<>>

\* the known container keys of d that hold a non-empty list, by their place
\* in the listed order
KnownHits(d) ==
    {n \in 1..Len(SECTION_KEYS) :
        \E m \in 1..Len(d.v) : d.v[m].k = SECTION_KEYS[n] /\ NonEmptyList(d.v[m].v)}

\* the entries of d whose value is a non-empty list
ListEntries(d) == {m \in 1..Len(d.v) : NonEmptyList(d.v[m].v)}

\* what an object nested one level down yields (its own values hold no object)
NestedYield(d) ==
    CASE HasKey(d, NameKey) -> <<d>>
      [] ~HasKey(d, NameKey) /\ KnownHits(d) # {} ->
            DictGet(d, SECTION_KEYS[CHOOSE n \in KnownHits(d) : \A m \in KnownHits(d) : n <= m]).v
      [] ~HasKey(d, NameKey) /\ KnownHits(d) = {} /\ ListEntries(d) # {} ->
            d.v[CHOOSE n \in ListEntries(d) : \A m \in ListEntries(d) : n <= m].v.v
      [] OTHER -> <<>>

\* the entries of d that yield something, depth-first: a non-empty list, or an
\* object that yields a list
YieldingEntries(d) ==
    {m \in 1..Len(d.v) :
        \/ NonEmptyList(d.v[m].v)
        \/ d.v[m].v.t = "obj" /\ NestedYield(d.v[m].v) # <<>>}

FirstYield(d) ==
    LET m == CHOOSE i \in YieldingEntries(d) : \A j \in YieldingEntries(d) : i <= j
    IN  IF d.v[m].v.t = "arr" THEN d.v[m].v.v ELSE NestedYield(d.v[m].v)

\* C19: on a parsed dict the strategies apply in a fixed order: a dict with a
\* name key is a single section, even with a sections key; else the first
\* known container key, in the listed order, that holds a non-empty list gives
\* the result, whatever other keys there are; else the first non-empty list
\* found depth-first among the values; an empty list is never returned, and
\* not found is reported when nothing matches
C19_StrategiesInFixedOrder ==
    (fpc = "returned" /\ FindData.t = "obj") =>
        /\ HasKey(FindData, NameKey) => ffound = [found |-> TRUE, list |-> <<FindData>>]
        /\ (~HasKey(FindData, NameKey) /\ KnownHits(FindData) # {}) =>
                ffound = [found |-> TRUE,
                          list |-> DictGet(FindData, SECTION_KEYS[
                                CHOOSE n \in KnownHits(FindData) :
                                    \A m \in KnownHits(FindData) : n <= m]).v]
        /\ (~HasKey(FindData, NameKey) /\ KnownHits(FindData) = {}
                /\ YieldingEntries(FindData) # {}) =>
                ffound = [found |-> TRUE, list |-> FirstYield(FindData)]
        /\ (~HasKey(FindData, NameKey) /\ KnownHits(FindData) = {}
                /\ YieldingEntries(FindData) = {}) =>
                ~ffound.found
        /\ ffound.found => ffound.list # <<>>

\* the list under sections was returned for a dict whose first entry is a
\* non-empty list under chapters
C19_Witness ==
    /\ fpc = "returned"
    /\ fdata = <<"{", DQ, "c", "h", "a", "p", "t", "e", "r", "s", DQ, ":", "[", DQ, "A", DQ, "]", ",", DQ, "s", "e", "c", "t", "i", "o", "n", "s", DQ, ":", "[", DQ, "B", DQ, ",", DQ, "C", DQ, "]", "}">>
    /\ ffound = [found |-> TRUE, list |-> <<JStr(<<"B">>), JStr(<<"C">>)>>]


(***************************************************************************)
(* _parse_discovery_list: its inputs and its state machine.                *)
(***************************************************************************)
\* a line of the discovery response is built from a numbering, a name, a
\* separator and a purpose, any of which may be empty
Numberings == {<<>>, <<"1", ".", " ">>, <<" ", "1", "2", ")">>}

LineNames == {<<>>, <<"C", "a">>}

LineSeparators == {<<>>} \cup {Separators[n] : n \in 1..Len(Separators)}

LinePurposes == {<<>>, <<"p", ":", " ", "q", " ">>, <<"r">>}

\* the lines: a purpose follows a separator, and only a separator; with no
\* name the separator is the colon or none (a separator is recognised with
\* its spaces, which a line that begins or ends with it loses when stripped)
DiscoveryLines ==
    {l \in [num : Numberings, name : LineNames, sep : LineSeparators, purpose : LinePurposes] :
        /\ l.sep = <<>> <=> l.purpose = <<>>
        /\ l.name = <<>> => l.sep \in {<<>>, <<":", " ">>}}

\* the two lines of the example of the parser's contract
ExampleLines == <<
    [num |-> <<"1", ".", " ">>,
     name |-> <<"C", "a", "s", "e", " ", "C", "a", "p", "t", "i", "o", "n">>,
     sep |-> <<" ", EmDash, " ">>,
     purpose |-> <<"C", "o", "u", "r", "t", " ", "a", "n", "d", " ", "p", "a", "r", "t", "i", "e", "s">>],
    [num |-> <<"2", ".", " ">>,
     name |-> <<"S", "i", "g", "n", "a", "t", "u", "r", "e", " ", "B", "l", "o", "c", "k">>,
     sep |-> <<" ", "-", " ">>,
     purpose |-> <<"A", "t", "t", "o", "r", "n", "e", "y", " ", "s", "i", "g", "n", "a", "t", "u", "r", "e">>] >>

MaxRawLines == 2

RawInputs == UNION {[1..n -> DiscoveryLines] : n \in 0..MaxRawLines} \cup {ExampleLines}

\* the text of one line, and of the response: its lines joined by "\n"
LineText(l) == l.num \o l.name \o l.sep \o l.purpose

RawText(lines) == JoinWith([n \in 1..Len(lines) |-> LineText(lines[n])], <<NL>>)

ParseInit ==
    /\ ppc = "start"
    /\ praw \in RawInputs
    /\ pparsed = <<>>

\* parsed = _parse_discovery_list(raw_list)
ParseDiscovery ==
    /\ ppc = "start"
    /\ pparsed' = _parse_discovery_list(RawText(praw))
    /\ ppc' = "returned"
    /\ UNCHANGED <<praw, exceptParse>>

InitParse ==
    GenIdle /\ JsonIdle /\ ExtIdle /\ AsgIdle /\ DocxIdle /\ AsmIdle /\ FindIdle /\ ParseInit

NextParse == ParseDiscovery

SpecParse == InitParse /\ [][NextParse]_vars

(***************************************************************************)
(* Claims about _parse_discovery_list.                                     *)
(***************************************************************************)
\* a line that is blank: nothing, whatever white space
IsBlankLine(l) == l.num = <<>> /\ l.name = <<>> /\ l.sep = <<>>

\* the pair claim C20 gives a line: none for a blank line, else the trimmed
\* name and purpose on the two sides of the separator, or the remainder and
\* an empty purpose
PairOfLine(l) ==
    IF IsBlankLine(l) THEN <<>> ELSE <<Pair(Strip(l.name), Strip(l.purpose))>>

\* the same, a line whose name is empty giving no pair
PairOfNamedLine(l) ==
    IF Strip(l.name) = <<>> THEN <<>> ELSE <<Pair(Strip(l.name), Strip(l.purpose))>>

\* C20 as stated: the parser returns, in line order, a pair for every line
\* that is not blank: the numbering stripped, the name and the purpose
\* trimmed around the separator, or the whole remainder as name and an empty
\* purpose when there is no separator
C20_PairPerLine ==
    ppc = "returned" =>
        pparsed = Concat([n \in 1..Len(praw) |-> PairOfLine(praw[n])])

\* C20, amended: as stated, but a line whose name is empty once the numbering
\* is stripped (nothing but the numbering, or nothing before the separator)
\* gives no pair
C20_PairPerNamedLine ==
    ppc = "returned" =>
        pparsed = Concat([n \in 1..Len(praw) |-> PairOfNamedLine(praw[n])])

\* the example of the contract was parsed
C20_Witness ==
    /\ ppc = "returned"
    /\ praw = ExampleLines
    /\ pparsed = <<Pair(ExampleLines[1].name, ExampleLines[1].purpose),
                   Pair(ExampleLines[2].name, ExampleLines[2].purpose)>>

(***************************************************************************)
(* Claims about the progress callback of SectionExtractor.extract.         *)
(***************************************************************************)
\* the outcomes of the LLM calls made, in order
GenerateOuts == [k \in 1..Len(GenerateCalls) |-> GenerateCalls[k].out]

RECURSIVE ExtractWithout(_, _, _, _)
\* extract with on_section=None on the names, the LLM answering outs: where it
\* stands after the answers ("loop" when it waits for another one) and the
\* result so far
ExtractWithout(names, outs, i, result) ==
    CASE i = Len(names) -> [pc |-> "returned", result |-> result]
      [] i < Len(names) /\ i >= Len(outs) -> [pc |-> "loop", result |-> result]
      [] i < Len(names) /\ i < Len(outs) /\ outs[i + 1].raised ->
            [pc |-> "raised", result |-> result]
      [] OTHER ->
            ExtractWithout(names, outs, i + 1,
                ResultSet(result, names[i + 1],
                          extract_one_section(outs[i + 1].text, names[i + 1])))

\* the log entries that are calls of the callback
CallbackCalls == SelectSeq(xlog, LAMBDA e : e.event = "on_section")

\* a callable callback was called once, right before each LLM call, with the
\* section name, the zero-based index and the total count
CalledBeforeEachCall ==
    /\ \A p \in 1..Len(xlog) :
          xlog[p].event = "generate" =>
              /\ p > 1
              /\ xlog[p - 1].event = "on_section"
              /\ xlog[p - 1].name = xlog[p].name
    /\ \A k \in 1..Len(CallbackCalls) :
          /\ CallbackCalls[k].name = xnames[k]
          /\ CallbackCalls[k].index = k - 1
          /\ CallbackCalls[k].total = Len(xnames)
    /\ Len(CallbackCalls) \in {Len(GenerateCalls), Len(GenerateCalls) + 1}
    /\ xpc = "returned" => Len(CallbackCalls) = Len(GenerateCalls)

\* C21: the progress callback is called once before each section's LLM call
\* with (section name, zero-based index, total count), and it never alters the
\* outcome: whatever on_section is, a callback that raises included, extract
\* ends as it ends with no callback on the same blueprint and LLM responses,
\* with the same map
C21_CallbackNeverAltersOutcome ==
    /\ xon_section \in {"returns", "raises"} => CalledBeforeEachCall
    /\ xon_section \in {"none", "not_callable"} => CallbackCalls = <<>>
    /\ xpc \in {"returned", "raised"} =>
          [pc |-> xpc, result |-> xresult]
              = ExtractWithout(xnames, GenerateOuts, 0, <<>>)

(***************************************************************************)
(* DocxAssembler.assemble_to_docx given a section_formatting_map by its    *)
(* caller: its inputs and its state machine.                               *)
(***************************************************************************)
\* the indices a caller's map may hold: below the range, in it, above it
MapIndices == {0 - 1, 0, 1, 5}

\* section_formatting_map: None, or a dict that gives an index to none, one or
\* both of the sections A and B
FormattingMaps ==
    {None, [t |-> "dict", v |-> <<>>]}
    \cup {[t |-> "dict", v |-> <<[k |-> name, v |-> i]>>] :
            name \in AssignNames, i \in MapIndices}
    \cup {[t |-> "dict", v |-> <<[k |-> <<"A">>, v |-> i], [k |-> <<"B">>, v |-> j]>>] :
            i \in MapIndices, j \in MapIndices}

FormatInit ==
    /\ dpc = "blocks"
    /\ reference = <<>>
    /\ formatting_blocks \in ApplyableBlockLists
    /\ dsections \in DocxSectionInputs
    /\ section_formatting_map \in FormattingMaps
    /\ document = <<>>

InitFormat == GenIdle /\ JsonIdle /\ ExtIdle /\ AsgIdle /\ FormatInit /\ HelpersIdle

NextFormat == AssembleToDocx

SpecFormat == InitFormat /\ [][NextFormat]_vars

(***************************************************************************)
(* Claims about the choice of the spec of a paragraph.                     *)
(***************************************************************************)
\* the reference specs, N of them
Specs == _paragraph_applyables_list(formatting_blocks)

\* a section formatting map was given and it is not empty
MapGiven == section_formatting_map # None /\ section_formatting_map.v # <<>>

\* the index the map assigns to a section, 0 for a section it does not hold
AssignedIndex(name) ==
    IF \E n \in 1..Len(section_formatting_map.v) : section_formatting_map.v[n].k = name
    THEN section_formatting_map.v[CHOOSE n \in 1..Len(section_formatting_map.v) :
                                      section_formatting_map.v[n].k = name].v
    ELSE 0

\* an index brought into [0, N-1]
IntoRange(idx, N) == IF idx < 0 THEN 0 ELSE IF idx > N - 1 THEN N - 1 ELSE idx

\* C22: with a non-empty section formatting map and N >= 1 reference specs,
\* every paragraph of a section is formatted with the spec at the section's
\* assigned index clamped into [0, N-1], a section missing from the map uses
\* spec 0, and the paragraphs of one section all use the same spec
C22_OneSpecPerSection ==
    (dpc = "assembled" /\ MapGiven /\ Len(Specs) >= 1) =>
        /\ \A k \in 1..Len(document) :
              /\ document[k].applyable
                    = Specs[IntoRange(AssignedIndex(document[k].section), Len(Specs)) + 1]
              /\ document[k].format = _apply_paragraph_format(document[k].applyable)
        /\ \A k, m \in 1..Len(document) :
              document[k].section = document[m].section =>
                  document[k].applyable = document[m].applyable

\* a document of three specs was assembled under a map that holds an index
\* above the range for A and none for B: the two paragraphs of A use the last
\* spec, the paragraph of B the first one
C22_Witness ==
    /\ dpc = "assembled"
    /\ Len(Specs) = 3
    /\ section_formatting_map = [t |-> "dict", v |-> <<[k |-> <<"A">>, v |-> 5]>>]
    /\ Len(document) = 3
    /\ document[1].section = <<"A">> /\ document[1].applyable = Specs[3]
    /\ document[2].section = <<"A">> /\ document[2].applyable = Specs[3]
    /\ document[3].section = <<"B">> /\ document[3].applyable = Specs[1]

FontLines(block) == SplitOn(block.formatting.Font.FONT, <<NL>>)

\* the value of a font attribute, taken from the first run if the paragraph
\* has one that sets it, else from the paragraph style; None if neither sets it
RunThenStyle(p, attr) ==
    IF p.run # None /\ p.run.font[attr] # None THEN p.run.font[attr]
    ELSE p.style.font[attr]

DefaultBodyFont ==
    <<"(", "D", "e", "f", "a", "u", "l", "t", ")", " ", "B", "o", "d", "y", " ", "T", "e", "x", "t">>

\* the font name and the set font sizes are resolved run first, then style, the
\* name falling back on the unnamed body font
FontResolved(block) ==
    /\ Len(FontLines(block)) = 2
    /\ FontLines(block)[1] =
            IF RunThenStyle(ReferenceOf(block), "name") # None
            THEN RunThenStyle(ReferenceOf(block), "name").v
            ELSE DefaultBodyFont
    /\ RunThenStyle(ReferenceOf(block), "size") # None =>
            FontLines(block)[2] = FormatPt(RunThenStyle(ReferenceOf(block), "size"))

\* C24 as stated: the font size comes from the first run's direct formatting
\* if present, else from the paragraph style's font, else it is a fixed default
\* of 12pt; the font name follows the same order with an unnamed body-font
\* default
C24_FontSizeDefaultsTo12 ==
    \A n \in 1..Len(ParagraphBlocks) :
        /\ FontResolved(ParagraphBlocks[n])
        /\ RunThenStyle(ReferenceOf(ParagraphBlocks[n]), "size") = None =>
              StartsWithAt(FontLines(ParagraphBlocks[n])[2], <<"1", "2", " ", "p", "t">>, 0)

\* C24, amended: as stated, the fixed default of the size being 11 pt,
\* reported as "11 pt (Default)"
C24_FontSizeDefaultsTo11 ==
    \A n \in 1..Len(ParagraphBlocks) :
        /\ FontResolved(ParagraphBlocks[n])
        /\ RunThenStyle(ReferenceOf(ParagraphBlocks[n]), "size") = None =>
              FontLines(ParagraphBlocks[n])[2]
                  = <<"1", "1", " ", "p", "t", " ", "(", "D", "e", "f", "a", "u", "l", "t", ")">>

\* a reference of two paragraphs was extracted, one that takes its font from
\* its first run and one with no font set anywhere
C24_Witness ==
    /\ dpc = "blocks"
    /\ Len(ParagraphBlocks) = 2
    /\ ReferenceOf(ParagraphBlocks[1]).run # None
    /\ ReferenceOf(ParagraphBlocks[1]).run.font.size = Length(177800)
    /\ FontLines(ParagraphBlocks[1])
          = << <<"A", "r", "i", "a", "l">>, <<"1", "4", ".", "0", " ", "p", "t">> >>
    /\ ReferenceOf(ParagraphBlocks[2]).run = None
    /\ ReferenceOf(ParagraphBlocks[2]).style.font.size = None
    /\ FontLines(ParagraphBlocks[2])[1] = DefaultBodyFont

(***************************************************************************)
(* Claims about the validation of a structuring attempt and the calls of   *)
(* generate.                                                               *)
(***************************************************************************)
\* the (name, purpose) pairs the items found in the extracted data normalise
\* to, none when no JSON or no sections list was found
PairsOfData(data) ==
    IF data.status = "ok" /\ _find_sections_list(data.val).found
    THEN NormalizeItems(_find_sections_list(data.val).list)
    ELSE <<>>

\* the pairs a structuring response normalises to
PairsOfResponse(text) == PairsOfData(extract_json_from_llm(text))

\* the k-th structuring attempt was accepted: it is the last call and generate
\* returned a blueprint that is not the fallback
Accepted(k) ==
    /\ k = Len(StructCalls)
    /\ Returned
    /\ "fallback_used" \notin DOMAIN blueprint

\* C25: a structuring attempt is accepted only if its items normalise to at
\* least 5 (name, purpose) pairs none of which has an empty name, and every
\* section of every blueprint generate returns has a non-empty name
C25_NoEmptySectionName ==
    /\ \A k \in 1..Len(StructCalls) :
          Accepted(k) =>
              /\ ~StructCalls[k].out.raised
              /\ Len(PairsOfResponse(StructCalls[k].out.text)) >= 5
              /\ \A n \in 1..Len(PairsOfResponse(StructCalls[k].out.text)) :
                    Strip(PairsOfResponse(StructCalls[k].out.text)[n].name) # <<>>
              /\ blueprint.sections = AsSections(PairsOfResponse(StructCalls[k].out.text))
    /\ Returned =>
          \A n \in 1..Len(blueprint.sections) : Strip(blueprint.sections[n].name) # <<>>

\* a first structuring response of five items, one of them named by white
\* space only, was rejected and the second response was accepted
C25_Witness ==
    /\ Len(StructCalls) = 2
    /\ ~StructCalls[1].out.raised
    /\ Len(PairsOfResponse(StructCalls[1].out.text)) = 5
    /\ PairsOfResponse(StructCalls[1].out.text)[1].name = <<>>
    /\ Accepted(2)
    /\ Len(blueprint.sections) = 5

\* every structuring attempt of the budget was made and failed
AllAttemptsFailed ==
    /\ Len(StructCalls) = MAX_RETRIES
    /\ \A k \in 1..Len(StructCalls) : ~StructAttempt(StructCalls[k].out).ok

\* C26: the reparse of the discovery text after the last attempt never
\* produces a blueprint: the text is the one that gave fewer than 5 pairs
\* before structuring, so whenever all 3 structuring attempts failed generate
\* has returned the fallback template with fallback_used = true, never the
\* reparsed discovery list
C26_ReparseNeverUsed ==
    (Returned /\ AllAttemptsFailed) =>
        /\ Len(_parse_discovery_list(raw_list)) < 5
        /\ IsFallback(blueprint)
        /\ blueprint.sections # AsSections(_parse_discovery_list(raw_list))

\* three attempts failed after a discovery text of four parsed lines, and
\* generate returned the template
C26_Witness ==
    /\ Returned
    /\ AllAttemptsFailed
    /\ Len(_parse_discovery_list(raw_list)) = 4
    /\ IsFallback(blueprint)

\* generate has a statement left to run: the discovery call, or a structuring
\* attempt of the loop (the guards of Discovery and Structuring)
Running == gpc = "start" \/ (gpc = "struct" /\ attempt + 1 \in AttemptRange)

\* what every step of generate does to its position: it leaves the discovery
\* call, or it counts one more structuring attempt
Step ==
    /\ Running
    /\ gpc' \in {"struct", "done", "raised"}
    /\ attempt' \in {attempt, attempt + 1}
    /\ (gpc = "struct") => (attempt' = attempt + 1)

\* generate runs to its end: the code is sequential and every LLM call returns
\* or raises, so a statement that is left to run does run
SpecFair == Init /\ [][Next]_vars /\ WF_<<gpc, attempt>>(Step)

\* the calls made so far: the discovery call first, then structuring calls
\* only, 1 + MAX_RETRIES at most, and at least one once generate has returned
CallsInOrder ==
    /\ Len(calls) <= 1 + MAX_RETRIES
    /\ Returned => Len(calls) >= 1
    /\ \A k \in 1..Len(calls) :
          calls[k].prompt.template = IF k = 1 THEN "discovery" ELSE "struct"

\* C27: every run of generate terminates, after at least 1 and at most 4 LLM
\* calls (one discovery call, then at most 3 structuring calls); the discovery
\* call precedes every structuring call, and no LLM call is made once a
\* blueprint has been decided
C27_TerminatesWithinFourCalls ==
    /\ []CallsInOrder
    /\ [][Returned => (calls' = calls /\ blueprint' = blueprint)]_vars
    /\ <>Returned

\* generate returned the blueprint of its third structuring attempt, after
\* four calls
C27_Witness ==
    /\ Returned
    /\ Len(calls) = 4
    /\ calls[1].prompt.template = "discovery"
    /\ Accepted(3)

(***************************************************************************)
(* Claims about unnumbered lines in the discovery response.                *)
(***************************************************************************)
\* what is left of a line once it is trimmed and a numbering is stripped
Remainder(line) == Strip(StripNumbering(Strip(line)))

\* the line begins with a numbering
IsNumbered(line) == StripNumbering(Strip(line)) # Strip(line)

\* the lines C28 is about: the remainder is not empty and does not start with
\* a separator
YieldsPair(line) ==
    /\ Remainder(line) # <<>>
    /\ \A n \in 1..Len(Separators) : ~StartsWithAt(Remainder(line), Separators[n], 0)

\* the lines of the discovery response
ResponseLines == SplitLinesFrom(calls[1].out.text, 0)

YieldingLines == {n \in 1..Len(ResponseLines) : YieldsPair(ResponseLines[n])}

\* C28: the parser does not require numbering: every line of the discovery
\* response whose remainder is not empty and does not start with a separator
\* yields exactly one pair, numbered or not (the pair of its remainder); with
\* 5 or more such lines generate returns after the discovery call, without
\* structuring, and each of these lines is a section of the blueprint
C28_NumberingNotRequired ==
    DiscoveryReturned =>
        /\ \A n \in YieldingLines :
              /\ Len(ParseLine(ResponseLines[n])) = 1
              /\ ParseLine(ResponseLines[n]) = ParseLine(Remainder(ResponseLines[n]))
        /\ Cardinality(YieldingLines) >= MIN_SECTIONS =>
              /\ Returned
              /\ Len(calls) = 1
              /\ StructCalls = <<>>
              /\ "fallback_used" \notin DOMAIN blueprint
              /\ Len(blueprint.sections) >= Cardinality(YieldingLines)
              /\ \A n \in YieldingLines :
                    \E k \in 1..Len(blueprint.sections) :
                       /\ k <= n
                       /\ Pair(blueprint.sections[k].name, blueprint.sections[k].purpose)
                             = ParseLine(ResponseLines[n])[1]

\* generate returned after the discovery call on a response of 5 lines of
\* which the first has no numbering, and that line is the first section
C28_Witness ==
    /\ Returned
    /\ DiscoveryReturned
    /\ Len(calls) = 1
    /\ Len(ResponseLines) = 5
    /\ YieldingLines = 1..5
    /\ ~IsNumbered(ResponseLines[1])
    /\ IsNumbered(ResponseLines[2])
    /\ Len(blueprint.sections) = 5
    /\ blueprint.sections[1].name = <<"a">>

(***************************************************************************)
(* Claims about the sections Assembler.assemble skips.                     *)
(***************************************************************************)
\* the generated text of a name is missing, or is white space only
MissingOrBlank(name) == Strip(MapGet(msections, name, <<>>)) = <<>>

\* the sections of the blueprint that have a text
WithText == SelectSeq(mblueprint.sections, LAMBDA s : ~MissingOrBlank(s.name))

\* the texts of the map, and the names of the blueprint
MapTexts == {msections[n].v : n \in 1..Len(msections)}

BlueprintNames == {mblueprint.sections[i].name : i \in 1..Len(mblueprint.sections)}

BothSectionMaps ==
    {m \in SectionMaps :
        /\ \A n \in 1..Len(m) : m[n].k # <<"Z">>
        /\ Len(m) = 2 => m[1].k = <<"A", "b">>}

\* section_formatting_map: None, an empty dict, a dict that holds C
BothFormattingMaps ==
    {None, [t |-> "dict", v |-> <<>>], [t |-> "dict", v |-> <<[k |-> <<"C">>, v |-> 1]>>]}

\* the formatting_blocks: without a spec, and with two
BothBlockLists == {<<>>, <<ApplyableBlock(1), ApplyableBlock(2)>>}

BothInit ==
    /\ mpc = "start"
    /\ mblueprint \in AssembleBlueprints
    /\ msections \in BothSectionMaps
    /\ mtext = <<>>
    /\ dpc = "blocks"
    /\ reference = <<>>
    /\ formatting_blocks \in BothBlockLists
    /\ dsections = [blueprint |-> mblueprint, sections |-> msections,
                    strip_leading_section_title |-> TRUE]
    /\ section_formatting_map \in BothFormattingMaps
    /\ document = <<>>

InitBoth == GenIdle /\ JsonIdle /\ ExtIdle /\ AsgIdle /\ FindIdle /\ ParseIdle /\ BothInit

NextBoth == Assemble \/ AssembleToDocx

SpecBoth == InitBoth /\ [][NextBoth]_vars

(***************************************************************************)
(* Claims about the agreement of the two assemblers.                       *)
(***************************************************************************)
\* the texts of the paragraphs written to the document, in order
ParagraphTexts == [n \in 1..Len(document) |-> document[n].text]

RECURSIVE Pieces(_, _)
\* the text from position i on cut at every "\n\n", each piece trimmed, the
\* empty pieces dropped
Pieces(s, i) ==
    LET at == Find(s, <<NL, NL>>, i)
        piece == Strip(Slice(s, i, IF at = -1 THEN Len(s) ELSE at))
    IN  (IF piece = <<>> THEN <<>> ELSE <<piece>>)
            \o (IF at = -1 THEN <<>> ELSE Pieces(s, at + 2))

\* C30: for the same blueprint and texts, title stripping enabled, and any
\* formatting map or none, the texts of the paragraphs assemble_to_docx
\* writes are the output of Assembler.assemble cut at the blank lines, each
\* piece trimmed and the empty pieces dropped
C30_AssemblersAgree ==
    (mpc = "returned" /\ dpc = "assembled") => ParagraphTexts = Pieces(mtext, 0)

\* both assemblers ran with a section map on texts of three paragraphs in
\* all, the title line of Ab stripped by both
C30_Witness ==
    /\ mpc = "returned"
    /\ dpc = "assembled"
    /\ section_formatting_map # None
    /\ section_formatting_map.v # <<>>
    /\ formatting_blocks # <<>>
    /\ MapGet(msections, <<"A", "b">>, <<>>) = <<"#", "#", " ", "A", "b", NL, "p", NL, NL, "q">>
    /\ mtext = <<"p", NL, NL, "q", NL, NL, "r">>
    /\ ParagraphTexts = <<<<"p">>, <<"q">>, <<"r">>>>

====
